---- MODULE Spec2Model ----
(***************************************************************************)
(* rtwo: the ollama protocol handler (src/src/ollama/mod.rs) and the       *)
(* driver that calls it (src/src/main.rs).                                 *)
(*                                                                         *)
(* Texts are TLA+ strings; TLC evaluates Len, SubSeq and \o on them, so    *)
(* the wire text, the deframing buffer and the JSON decoder work on the    *)
(* characters themselves.                                                  *)
(***************************************************************************)
EXTENDS Integers, Sequences, FiniteSets, TLC

(***************************************************************************)
(* Characters and strings                                                  *)
(***************************************************************************)

\* the element of a set of one element: The({F(x) : x \in {e}}) is F(e) with
\* e worked out once
The(S) == CHOOSE x \in S : TRUE

\* the character of s at position i, "" past the end
Ch(s, i) == IF i >= 1 /\ i <= Len(s) THEN SubSeq(s, i, i) ELSE ""

\* the characters i..j of s, cut at the end of s
Slice(s, i, j) ==
    IF i > Len(s) THEN "" ELSE SubSeq(s, i, IF j > Len(s) THEN Len(s) ELSE j)

\* char::is_whitespace restricted to the characters the inputs contain
IsWs(c) == c \in {" ", "\n", "\t", "\r"}

Digits == <<"0", "1", "2", "3", "4", "5", "6", "7", "8", "9">>

IsDigit(c) == \E d \in 1..10 : Digits[d] = c

DigitVal(c) == (CHOOSE d \in 1..10 : Digits[d] = c) - 1

\* str::trim_end: drop the trailing whitespace
RECURSIVE trim_end(_)
trim_end(s) ==
    IF Len(s) > 0 /\ IsWs(Ch(s, Len(s)))
    THEN trim_end(SubSeq(s, 1, Len(s) - 1))
    ELSE s

\* str::ends_with for a single character
ends_with(s, c) == Len(s) > 0 /\ Ch(s, Len(s)) = c

\* str::contains: pat occurs in s as a substring
str_contains(s, pat) ==
    \E i \in 1..(Len(s) - Len(pat) + 1) : SubSeq(s, i, i + Len(pat) - 1) = pat

\* decimal text of an integer, as Display and Debug print an i64
RECURSIVE FmtNat(_)
FmtNat(n) == IF n < 10 THEN Digits[n + 1] ELSE FmtNat(n \div 10) \o Digits[(n % 10) + 1]

FmtInt(n) == IF n < 0 THEN "-" \o FmtNat(0 - n) ELSE FmtNat(n)

\* format!("{:?}", v) for v : Vec<i64>, e.g. [1, 2, 3]
RECURSIVE FmtVecTail(_)
FmtVecTail(v) == IF v = <<>> THEN "" ELSE ", " \o FmtInt(Head(v)) \o FmtVecTail(Tail(v))

FmtVecDebug(v) == IF v = <<>> THEN "[]" ELSE "[" \o FmtInt(Head(v)) \o FmtVecTail(Tail(v)) \o "]"

(***************************************************************************)
(* serde_json::from_str: a JSON text to a value.  Values are tagged        *)
(* records: null, bool, int, str, arr (a sequence of values) and obj (a    *)
(* sequence of members [k, v] in text order).  A parse step returns        *)
(* [ok, v, pos]: pos is the position after the value.                      *)
(***************************************************************************)

Fail == [ok |-> FALSE]

Good(v, p) == [ok |-> TRUE, v |-> v, pos |-> p]

JNull == [t |-> "null"]

JBool(b) == [t |-> "bool", v |-> b]

JInt(n) == [t |-> "int", v |-> n]

JStr(s) == [t |-> "str", v |-> s]

JArr(a) == [t |-> "arr", v |-> a]

JObj(m) == [t |-> "obj", v |-> m]

RECURSIVE SkipWs(_, _)
SkipWs(s, i) == IF IsWs(Ch(s, i)) THEN SkipWs(s, i + 1) ELSE i

\* the characters an escape sequence stands for; "" when it is not an escape
Unescape(c) ==
    CASE c = "\"" -> "\""
      [] c = "\\" -> "\\"
      [] c = "/" -> "/"
      [] c = "n" -> "\n"
      [] c = "t" -> "\t"
      [] c = "r" -> "\r"
      [] OTHER -> ""

\* the body of a string literal from position i (after the opening quote)
RECURSIVE ParseStrBody(_, _, _)
ParseStrBody(s, i, acc) ==
    LET c == Ch(s, i) IN
    CASE c = "" -> Fail
      [] c = "\"" -> Good(JStr(acc), i + 1)
      [] c = "\\" ->
            IF Unescape(Ch(s, i + 1)) = "" THEN Fail
            ELSE ParseStrBody(s, i + 2, acc \o Unescape(Ch(s, i + 1)))
      [] c \in {"\n", "\t", "\r"} -> Fail
      [] OTHER -> ParseStrBody(s, i + 1, acc \o c)

ParseString(s, i) == IF Ch(s, i) = "\"" THEN ParseStrBody(s, i + 1, "") ELSE Fail

RECURSIVE ParseDigits(_, _, _)
ParseDigits(s, i, acc) ==
    IF IsDigit(Ch(s, i)) THEN ParseDigits(s, i + 1, acc * 10 + DigitVal(Ch(s, i)))
    ELSE [v |-> acc, pos |-> i]

\* an integer literal; a leading zero is followed by no digit, and a
\* fraction or an exponent is not an integer
ParseNumber(s, i) ==
    LET neg == Ch(s, i) = "-"
        j == IF neg THEN i + 1 ELSE i
        d == ParseDigits(s, j, 0)
    IN  IF ~IsDigit(Ch(s, j)) THEN Fail
        ELSE IF Ch(s, j) = "0" /\ IsDigit(Ch(s, j + 1)) THEN Fail
        ELSE IF Ch(s, d.pos) \in {".", "e", "E"} THEN Fail
        ELSE Good(JInt(IF neg THEN 0 - d.v ELSE d.v), d.pos)

ParseLiteral(s, i) ==
    CASE Slice(s, i, i + 3) = "true" -> Good(JBool(TRUE), i + 4)
      [] Slice(s, i, i + 4) = "false" -> Good(JBool(FALSE), i + 5)
      [] Slice(s, i, i + 3) = "null" -> Good(JNull, i + 4)
      [] OTHER -> Fail

RECURSIVE ParseValue(_, _), ParseElems(_, _, _), ParseMembers(_, _, _)
ParseValue(s, i) ==
    LET c == Ch(s, i) IN
    CASE c = "\"" -> ParseString(s, i)
      [] c = "{" ->
            IF Ch(s, SkipWs(s, i + 1)) = "}" THEN Good(JObj(<<>>), SkipWs(s, i + 1) + 1)
            ELSE ParseMembers(s, SkipWs(s, i + 1), <<>>)
      [] c = "[" ->
            IF Ch(s, SkipWs(s, i + 1)) = "]" THEN Good(JArr(<<>>), SkipWs(s, i + 1) + 1)
            ELSE ParseElems(s, SkipWs(s, i + 1), <<>>)
      [] c = "-" \/ IsDigit(c) -> ParseNumber(s, i)
      [] OTHER -> ParseLiteral(s, i)

\* the elements of an array from position i (at the start of an element)
ParseElems(s, i, acc) ==
    LET e == ParseValue(s, i) IN
    IF ~e.ok THEN Fail
    ELSE LET j == SkipWs(s, e.pos) IN
         CASE Ch(s, j) = "," -> ParseElems(s, SkipWs(s, j + 1), Append(acc, e.v))
           [] Ch(s, j) = "]" -> Good(JArr(Append(acc, e.v)), j + 1)
           [] OTHER -> Fail

\* the members of an object from position i (at the start of a key)
ParseMembers(s, i, acc) ==
    LET k == ParseString(s, i) IN
    IF ~k.ok THEN Fail
    ELSE LET c == SkipWs(s, k.pos) IN
         IF Ch(s, c) # ":" THEN Fail
         ELSE LET e == ParseValue(s, SkipWs(s, c + 1)) IN
              IF ~e.ok THEN Fail
              ELSE LET j == SkipWs(s, e.pos)
                       m == Append(acc, [k |-> k.v.v, v |-> e.v])
                   IN  CASE Ch(s, j) = "," -> ParseMembers(s, SkipWs(s, j + 1), m)
                         [] Ch(s, j) = "}" -> Good(JObj(m), j + 1)
                         [] OTHER -> Fail

\* a whole text: one value between optional whitespace, nothing after it
from_str(s) ==
    LET r == ParseValue(s, SkipWs(s, 1)) IN
    IF ~r.ok THEN Fail
    ELSE IF SkipWs(s, r.pos) # Len(s) + 1 THEN Fail
    ELSE r

(***************************************************************************)
(* Deserialising the response structs (serde derive): a missing field or   *)
(* a null is None, a field given twice or with a value of the wrong type   *)
(* is an error, an unknown field is ignored.                               *)
(***************************************************************************)

None == [some |-> FALSE]

Some(x) == [some |-> TRUE, v |-> x]

\* the positions of the members of obj that are named key
MembersOf(obj, key) == {i \in 1..Len(obj.v) : obj.v[i].k = key}

\* the value has the Rust type ty
HasType(j, ty) ==
    CASE ty = "String" -> j.t = "str"
      [] ty = "bool" -> j.t = "bool"
      [] ty = "u64" -> j.t = "int" /\ j.v >= 0
      [] ty = "Vec<i64>" -> j.t = "arr" /\ \A i \in 1..Len(j.v) : j.v[i].t = "int"
      [] OTHER -> FALSE

\* the Rust value of a JSON value of type ty
RustValue(j, ty) == IF ty = "Vec<i64>" THEN [i \in 1..Len(j.v) |-> j.v[i].v] ELSE j.v

FieldOk(obj, key, ty) ==
    \/ MembersOf(obj, key) = {}
    \/ \E i \in MembersOf(obj, key) :
          /\ MembersOf(obj, key) = {i}
          /\ obj.v[i].v.t = "null" \/ HasType(obj.v[i].v, ty)

Field(obj, key, ty) ==
    IF \A i \in MembersOf(obj, key) : obj.v[i].v.t = "null" THEN None
    ELSE Some(RustValue(obj.v[CHOOSE i \in MembersOf(obj, key) : TRUE].v, ty))

GenerateResponseFields ==
    << <<"error", "String">>, <<"model", "String">>, <<"created_at", "String">>,
       <<"response", "String">>, <<"done", "bool">>, <<"context", "Vec<i64>">>,
       <<"total_duration", "u64">>, <<"load_duration", "u64">>,
       <<"prompt_eval_count", "u64">>, <<"prompt_eval_duration", "u64">>,
       <<"eval_count", "u64">>, <<"eval_duration", "u64">> >>

\* the fields of a parse result r are those of the struct: r is an object
\* and each field named in fields is absent, null or of its type
StructOk(r, fields) ==
    /\ r.ok
    /\ r.v.t = "obj"
    /\ \A i \in 1..Len(fields) : FieldOk(r.v, fields[i][1], fields[i][2])

\* serde_json::from_str::<GenerateResponse>; the fields kept are the ones
\* process_gen_response branches on
GenerateResponseOf(r) ==
    IF ~StructOk(r, GenerateResponseFields) THEN Fail
    ELSE [ok |-> TRUE,
          v |-> [error |-> Field(r.v, "error", "String"),
                 response |-> Field(r.v, "response", "String"),
                 done |-> Field(r.v, "done", "bool"),
                 context |-> Field(r.v, "context", "Vec<i64>")]]

GenerateResponse(text) == The({GenerateResponseOf(r) : r \in {from_str(text)}})

PullResponseFields ==
    << <<"error", "String">>, <<"status", "String">>, <<"digest", "String">>,
       <<"total", "u64">>, <<"completed", "u64">> >>

\* serde_json::from_str::<PullResponse>
PullResponseOf(r) ==
    IF ~StructOk(r, PullResponseFields) THEN Fail
    ELSE [ok |-> TRUE,
          v |-> [error |-> Field(r.v, "error", "String"),
                 status |-> Field(r.v, "status", "String"),
                 digest |-> Field(r.v, "digest", "String")]]

PullResponse(text) == The({PullResponseOf(r) : r \in {from_str(text)}})

(***************************************************************************)
(* Bounds and inputs                                                       *)
(***************************************************************************)

\* questions asked in one session
MaxTurns == 2

\* conf.host, conf.port
Host == "localhost"

Port == 11434

\* texts the user types at the "Ask R2" prompt
Questions == {"hi"}

\* conf.model
ConfModels == {"llama3"}

\* catalogs the tags endpoint answers with
Catalogs == {<<>>, <<"llama3:latest">>, <<"llama3:latest", "phi3:mini">>}

\* values of the pull argument; None when the flag is absent
PullArgs == {None, Some("phi3:mini"), Some("gemma:2b")}

\* values of the del argument; None when the flag is absent
DelArgs == {None, Some("phi3:mini"), Some("gemma:2b")}

\* statuses the delete endpoint answers with
StatusCodes == {200, 204, 404, 500}

\* bodies the generate endpoint streams: records one per line, a space and
\* a brace inside a response text, a terminal record without context, an
\* error record followed by more, a record without response, a stream that
\* ends before the terminal record, and one that ends inside a record
StreamBodies ==
    { "{\"response\":\"Hel\",\"done\":false}\n{\"response\":\"lo\",\"done\":true,\"context\":[1,2,3]}\n",
      "{\"response\":\"a b\",\"done\":true,\"context\":[7]}",
      "{\"response\":\"{}\",\"done\":true,\"context\":[4]}\n",
      "{\"response\":\"x\",\"done\":true}\n",
      "{\"error\":\"boom\"}\n{\"response\":\"z\",\"done\":true,\"context\":[5]}\n",
      "{\"done\":true,\"context\":[6]}\n",
      "{\"response\":\"p\"}\n",
      "{\"response\":\"q\",\"done\":tr" }

\* bodies the generate endpoint answers a batch request with
BatchBodies ==
    { "{\"response\":\"hi\",\"done\":true,\"context\":[1,2]}",
      "{\"response\":\"yo\",\"context\":[3]}",
      "{\"response\":\"no\",\"done\":false,\"context\":[8]}\n",
      "{\"response\":\"ok\",\"done\":true}",
      "{\"error\":\"boom\",\"response\":\"r\"}",
      "{\"done\":true,\"context\":[9]}",
      "{\"response\":\"cut" }

\* bodies the pull endpoint streams: a pull without layers, one that ends
\* before success, a layer reported twice, two layers of which the first is
\* reported again after the second and before a digest without status, an
\* error, and an empty body
PullBodies ==
    { "{\"status\":\"pulling manifest\"}\n{\"status\":\"success\"}\n",
      "{\"status\":\"pulling manifest\"}\n",
      "{\"status\":\"pulling a1\",\"digest\":\"d1\"}\n{\"status\":\"pulling a1\",\"digest\":\"d1\"}\n{\"status\":\"success\"}\n",
      "{\"status\":\"pulling a1\",\"digest\":\"d1\"}\n{\"status\":\"pulling a2\",\"digest\":\"d2\"}\n"
        \o "{\"status\":\"pulling a1\",\"digest\":\"d1\"}\n{\"digest\":\"d3\"}\n{\"status\":\"success\"}\n",
      "{\"error\":\"file does not exist\"}\n",
      "" }

(***************************************************************************)
(* State                                                                   *)
(***************************************************************************)

VARIABLES
    pc,             \* where main is: start, ask, recv, body, again, save, pulling,
                    \* deleting, exit0, exit1
    conf,           \* what get_config returned: [model, stream, save]
    matches,        \* the flags of the command line: [save, no_save, restore]
    avail_models,   \* main: the catalog get_models returned
    pull_arg,       \* the pull argument of the command line
    del_arg,        \* the del argument of the command line
    calls,          \* requests main has issued since the catalog was fetched
    status,         \* del_model: resp.status(), None before the answer
    conversation,   \* main: Vec<Chat>
    context,        \* main: Option<String>, threaded into the next generate
    turn,           \* number of questions asked so far
    sent,           \* payload of the request in flight (or of the last one)
    body,           \* the whole text the server answers the request with
    wire,           \* the part of body the transport has yet to deliver
    raw_resp,       \* generate: the deframing buffer
    full_response,  \* generate: the accumulated text
    gen_context,    \* generate: the local context, "[]" until a record sets it
    parsed,         \* records deserialised in the current call, in order
    out,            \* fmt_print calls since the request was sent, in order
    layers,         \* pull_model: status labels of the layers seen
    layer_num,      \* pull_model: the layer counter
    pb,             \* pull_model: message of the progress spinner
    ret,            \* what the last call of generate or pull_model returned
    prev,           \* what the call of generate before that returned
    store,          \* db: the data file, [table, rows]
    passed,         \* for each row of store, the arguments save_conversation got
    now,            \* the latest time a save has read from the clock
    db_ret,         \* what the last call into db got and returned
    db_out,         \* fmt_print calls of the last call into db
    payload,        \* get_postdata: the map it is given
    key_order,      \* get_postdata: the keys in the order the map iterates them
    postdata,       \* get_postdata: the text it returns, "" before the call
    conf_file,      \* lib: the port rtwo.toml holds, None while there is no file
    port_flag,      \* lib: the text of the port flag, None without the flag
    port_input,     \* setup_file_struct: the text last typed at the port prompt
    port_check,     \* setup_file_struct: what validate_port_str said of it
    port_ret,       \* lib: what get_config returned for the port
    log             \* lib::log calls since main started, in order; after a call
                    \* into db on its own, those of the call

vars == <<pc, conf, matches, avail_models, pull_arg, del_arg, calls, status, conversation,
          context, turn, sent, body, wire, raw_resp, full_response, gen_context,
          parsed, out, layers, layer_num, pb, ret, prev,
          store, passed, now, db_ret, db_out, payload, key_order, postdata,
          conf_file, port_flag, port_input, port_check, port_ret, log>>

driver == <<conf, matches, avail_models, pull_arg, del_arg>>

pull_vars == <<layers, layer_num, pb>>

gen_vars == <<raw_resp, full_response, gen_context>>

db_vars == <<store, passed, now, db_ret, db_out>>

codec_vars == <<payload, key_order, postdata>>

port_vars == <<conf_file, port_flag, port_input, port_check, port_ret>>

main_vars == <<pc, driver, calls, status, conversation, context, turn, sent, body,
               wire, gen_vars, parsed, out, pull_vars, ret, prev>>

NoCall == [fn |-> "none"]

\* the data file before the first save
NoStore == [table |-> FALSE, rows |-> <<>>]

\* a request sent to the server: the method and the full_url the call builds
Request(method, endpoint) ==
    [method |-> method,
     url |-> "http://" \o Host \o ":" \o FmtInt(Port) \o "/api/" \o endpoint]

Chat(role, content) == [role |-> role, content |-> content]

Printed(ct, s) == [ct |-> ct, s |-> s]

Ok(fn, v) == [fn |-> fn, ok |-> TRUE, v |-> v]

Err(fn, e) == [fn |-> fn, ok |-> FALSE, err |-> e]

\* a line of the log file: its level and its descriptor
Logged(lvl, descriptor) == [lvl |-> lvl, descriptor |-> descriptor]

\* a command line without flags
NoFlags == [save |-> FALSE, no_save |-> FALSE, restore |-> FALSE]

\* the opaque errors of the libraries
JsonError == "serde_json::Error"

TransportError == "reqwest::Error"

\* nothing has run yet
Idle ==
    /\ pc = "start"
    /\ calls = <<>>
    /\ status = None
    /\ conversation = <<>>
    /\ context = None
    /\ turn = 0
    /\ sent = <<>>
    /\ body = ""
    /\ wire = ""
    /\ raw_resp = ""
    /\ full_response = ""
    /\ gen_context = "[]"
    /\ parsed = <<>>
    /\ out = <<>>
    /\ layers = <<>>
    /\ layer_num = 0
    /\ pb = ""
    /\ ret = NoCall
    /\ prev = NoCall
    /\ db_ret = NoCall
    /\ db_out = <<>>
    /\ log = <<>>

\* nothing has run yet and there is no data file
Fresh ==
    /\ Idle
    /\ store = NoStore
    /\ passed = <<>>
    /\ now = 0

\* get_postdata has not been called
NoPost ==
    /\ payload = <<>>
    /\ key_order = <<>>
    /\ postdata = ""

\* the port has not been asked for nor read
NoPort ==
    /\ conf_file = None
    /\ port_flag = None
    /\ port_input = ""
    /\ port_check = None
    /\ port_ret = NoCall

(***************************************************************************)
(* ollama::generate                                                        *)
(***************************************************************************)

\* str::replace for a single character
RECURSIVE replace(_, _, _)
replace(s, from, to) ==
    IF s = "" THEN ""
    ELSE (IF Ch(s, 1) = from THEN to ELSE Ch(s, 1)) \o replace(Slice(s, 2, Len(s)), from, to)

\* GenPayload without the context entry
GenPayload_NoContext(question, ctx, c) ==
    ("model" :> c.model) @@ ("prompt" :> question)
    @@ (IF ~c.stream THEN ("stream" :> "false") ELSE <<>>)

\* the payload generate builds before it sends the request
GenPayload(question, ctx, c) ==
    ("model" :> c.model) @@ ("prompt" :> question)
    @@ (IF ~c.stream THEN ("stream" :> "false") ELSE <<>>)
    @@ (IF ctx.some THEN ("context" :> ctx.v) ELSE <<>>)

\* process_gen_response that never returns a context
process_gen_response_NoContext(ollama_resp) ==
    IF ollama_resp.error.some THEN [ok |-> FALSE, err |-> ollama_resp.error.v]
    ELSE IF ~ollama_resp.response.some THEN [ok |-> FALSE, err |-> "Response not found"]
    ELSE LET done == IF ollama_resp.done.some THEN ollama_resp.done.v ELSE FALSE IN
         [ok |-> TRUE,
          context |-> None,
          response |-> ollama_resp.response.v,
          out |-> <<Printed("Answer", ollama_resp.response.v)>>
                  \o (IF done THEN <<Printed("Info", "\nDone")>> ELSE <<>>),
          log |-> IF done THEN <<Logged("Debug", "ollama")>> ELSE <<>>]

\* process_gen_response that does not look at the error field
process_gen_response_IgnoresError(ollama_resp) ==
    IF ~ollama_resp.response.some THEN [ok |-> FALSE, err |-> "Response not found"]
    ELSE LET done == IF ollama_resp.done.some THEN ollama_resp.done.v ELSE FALSE IN
         [ok |-> TRUE,
          context |-> IF done /\ ollama_resp.context.some
                      THEN Some(FmtVecDebug(ollama_resp.context.v))
                      ELSE None,
          response |-> ollama_resp.response.v,
          out |-> <<Printed("Answer", ollama_resp.response.v)>>
                  \o (IF done THEN <<Printed("Info", "\nDone")>> ELSE <<>>),
          log |-> IF done THEN <<Logged("Debug", "ollama")>> ELSE <<>>]

\* process_gen_response that takes a missing response for an empty one
process_gen_response_EmptyResponse(ollama_resp) ==
    IF ollama_resp.error.some THEN [ok |-> FALSE, err |-> ollama_resp.error.v]
    ELSE LET done == IF ollama_resp.done.some THEN ollama_resp.done.v ELSE FALSE
             resp == IF ollama_resp.response.some THEN ollama_resp.response.v ELSE ""
         IN
         [ok |-> TRUE,
          context |-> IF done /\ ollama_resp.context.some
                      THEN Some(FmtVecDebug(ollama_resp.context.v))
                      ELSE None,
          response |-> resp,
          out |-> (IF ollama_resp.response.some THEN <<Printed("Answer", resp)>> ELSE <<>>)
                  \o (IF done THEN <<Printed("Info", "\nDone")>> ELSE <<>>),
          log |-> IF done THEN <<Logged("Debug", "ollama")>> ELSE <<>>]

\* process_gen_response that returns the response without printing it
process_gen_response_Silent(ollama_resp) ==
    IF ollama_resp.error.some THEN [ok |-> FALSE, err |-> ollama_resp.error.v]
    ELSE IF ~ollama_resp.response.some THEN [ok |-> FALSE, err |-> "Response not found"]
    ELSE LET done == IF ollama_resp.done.some THEN ollama_resp.done.v ELSE FALSE IN
         [ok |-> TRUE,
          context |-> IF done /\ ollama_resp.context.some
                      THEN Some(FmtVecDebug(ollama_resp.context.v))
                      ELSE None,
          response |-> ollama_resp.response.v,
          out |-> IF done THEN <<Printed("Info", "\nDone")>> ELSE <<>>,
          log |-> IF done THEN <<Logged("Debug", "ollama")>> ELSE <<>>]

\* process_gen_response that asks for a response only of a record that is
\* not the terminal one
process_gen_response_TerminalWithout(ollama_resp) ==
    IF ollama_resp.error.some THEN [ok |-> FALSE, err |-> ollama_resp.error.v]
    ELSE LET done == IF ollama_resp.done.some THEN ollama_resp.done.v ELSE FALSE
             resp == IF ollama_resp.response.some THEN ollama_resp.response.v ELSE ""
         IN
         IF ~ollama_resp.response.some /\ ~done
         THEN [ok |-> FALSE, err |-> "Response not found"]
         ELSE [ok |-> TRUE,
               context |-> IF done /\ ollama_resp.context.some
                           THEN Some(FmtVecDebug(ollama_resp.context.v))
                           ELSE None,
               response |-> resp,
               out |-> (IF ollama_resp.response.some THEN <<Printed("Answer", resp)>>
                        ELSE <<>>)
                       \o (IF done THEN <<Printed("Info", "\nDone")>> ELSE <<>>),
               log |-> IF done THEN <<Logged("Debug", "ollama")>> ELSE <<>>]

\* process_gen_response: the error of the record, else its response printed
\* as an answer, and for a record with done = true its context and "Done".
\* conf.verbose is off: the accounting lines it adds are not printed.  The
\* writes to the log file are taken to succeed.
process_gen_response(ollama_resp) ==
    IF ollama_resp.error.some THEN [ok |-> FALSE, err |-> ollama_resp.error.v]
    ELSE IF ~ollama_resp.response.some THEN [ok |-> FALSE, err |-> "Response not found"]
    ELSE LET done == IF ollama_resp.done.some THEN ollama_resp.done.v ELSE FALSE IN
         [ok |-> TRUE,
          context |-> IF done /\ ollama_resp.context.some
                      THEN Some(FmtVecDebug(ollama_resp.context.v))
                      ELSE None,
          response |-> ollama_resp.response.v,
          out |-> <<Printed("Answer", ollama_resp.response.v)>>
                  \o (IF done THEN <<Printed("Info", "\nDone")>> ELSE <<>>),
          log |-> IF done THEN <<Logged("Debug", "ollama")>> ELSE <<>>]

\* GenerateFailed that leaves the loop for the save step
GenerateFailed_ThenSaves(e) ==
    /\ ret' = Err("generate", e)
    /\ out' = Append(out, Printed("Error",
                 "Failed to generate response from " \o Host \o ":" \o FmtInt(Port) \o " -> " \o e))
    /\ log' = Append(log, Logged("Error", "ollama"))
    /\ pc' = "save"
    /\ UNCHANGED <<conversation, context, prev>>

\* main, when generate returned Err(e): the error is logged and printed and
\* the process exits with status 1
GenerateFailed(e) ==
    /\ ret' = Err("generate", e)
    /\ out' = Append(out, Printed("Error",
                 "Failed to generate response from " \o Host \o ":" \o FmtInt(Port) \o " -> " \o e))
    /\ log' = Append(log, Logged("Error", "ollama"))
    /\ pc' = "exit1"
    /\ UNCHANGED <<conversation, context, prev>>

\* main, when generate returned Ok((ctx, resp)): the assistant turn is
\* recorded and ctx becomes the context of the next call
GenerateReturned(ctx, resp) ==
    /\ ret' = Ok("generate", [context |-> ctx, response |-> resp])
    /\ conversation' = Append(conversation, Chat("assistant", resp))
    /\ context' = Some(ctx)
    /\ pc' = "again"
    /\ UNCHANGED prev

\* main loop head: the user types a question, generate builds the payload
\* and sends the request; the server chooses what it answers
Ask ==
    /\ pc = "ask"
    /\ \E question \in Questions, b \in (IF conf.stream THEN StreamBodies ELSE BatchBodies) :
          /\ conversation' = Append(conversation, Chat("user", question))
          /\ sent' = GenPayload(replace(question, "\"", "'"), context, conf)
          /\ body' = b
          /\ wire' = b
    /\ turn' = turn + 1
    /\ prev' = ret
    /\ ret' = NoCall
    /\ raw_resp' = ""
    /\ full_response' = ""
    /\ gen_context' = "[]"
    /\ parsed' = <<>>
    /\ out' = <<>>
    /\ calls' = Append(calls, Request("POST", "generate"))
    /\ log' = Append(log, Logged("Debug", "ollama"))
    /\ pc' = IF conf.stream THEN "recv" ELSE "body"
    /\ UNCHANGED <<driver, db_vars, codec_vars, port_vars, status, context, pull_vars>>

\* one iteration of the streaming loop: a chunk arrives (any non-empty
\* prefix of what is left on the wire, valid UTF-8), is trimmed and appended
\* to the buffer; a buffer that ends with a brace is deserialised and
\* processed
GenChunk ==
    /\ pc = "recv"
    /\ wire # ""
    /\ \E n \in 1..Len(wire) :
       \E buf \in {raw_resp \o trim_end(SubSeq(wire, 1, n))} :
          /\ wire' = Slice(wire, n + 1, Len(wire))
          /\ IF ~ends_with(buf, "}")
             THEN /\ raw_resp' = buf
                  /\ UNCHANGED <<full_response, gen_context, parsed, out, ret, pc,
                                 conversation, context, prev, log>>
             ELSE \E d \in {GenerateResponse(buf)} :
                  IF ~d.ok
                  THEN /\ raw_resp' = buf
                       /\ GenerateFailed(JsonError)
                       /\ UNCHANGED <<full_response, gen_context, parsed>>
                  ELSE \E p \in {process_gen_response(d.v)} :
                       IF ~p.ok
                       THEN /\ raw_resp' = ""
                            /\ parsed' = Append(parsed, d.v)
                            /\ GenerateFailed(p.err)
                            /\ UNCHANGED <<full_response, gen_context>>
                       ELSE /\ raw_resp' = ""
                            /\ parsed' = Append(parsed, d.v)
                            /\ out' = out \o p.out
                            /\ log' = log \o p.log
                            /\ full_response' = full_response \o p.response
                            /\ gen_context' = IF p.context.some THEN p.context.v
                                              ELSE gen_context
                            /\ UNCHANGED <<ret, pc, conversation, context, prev>>
    /\ UNCHANGED <<driver, db_vars, codec_vars, port_vars, status, calls, turn, sent, body, pull_vars>>

\* the transfer is over: the loop ends and generate returns what it has
GenEnd ==
    /\ pc = "recv"
    /\ wire = ""
    /\ GenerateReturned(gen_context, full_response)
    /\ UNCHANGED <<driver, db_vars, codec_vars, port_vars, log, status, calls, turn, sent, body, wire, gen_vars, parsed, out, pull_vars>>

\* batch mode: the whole body is deserialised as one record and processed
GenBatch ==
    /\ pc = "body"
    /\ wire' = ""
    /\ \E d \in {GenerateResponse(wire)} :
          IF ~d.ok
          THEN /\ GenerateFailed(JsonError)
               /\ UNCHANGED <<full_response, gen_context, parsed>>
          ELSE \E p \in {process_gen_response(d.v)} :
               IF ~p.ok
               THEN /\ parsed' = Append(parsed, d.v)
                    /\ GenerateFailed(p.err)
                    /\ UNCHANGED <<full_response, gen_context>>
               ELSE /\ parsed' = Append(parsed, d.v)
                    /\ out' = out \o p.out
                    /\ log' = log \o p.log
                    /\ full_response' = full_response \o p.response
                    /\ gen_context' = IF p.context.some THEN p.context.v ELSE gen_context
                    /\ GenerateReturned(gen_context', full_response')
    /\ UNCHANGED <<driver, db_vars, codec_vars, port_vars, status, calls, turn, sent, body, raw_resp, pull_vars>>

\* send, chunk or text fails in the transport: generate returns the error
GenTransportFails ==
    /\ pc \in {"recv", "body"}
    /\ GenerateFailed(TransportError)
    /\ UNCHANGED <<driver, db_vars, codec_vars, port_vars, status, calls, turn, sent, body, wire, gen_vars, parsed, pull_vars>>

\* "Ask another question?"
AskAgain ==
    /\ pc = "again"
    /\ \E ask_again \in (IF turn < MaxTurns THEN BOOLEAN ELSE {FALSE}) :
          pc' = IF ask_again THEN "ask" ELSE "save"
    /\ UNCHANGED <<driver, db_vars, codec_vars, port_vars, log, status, calls, conversation, context, turn, sent, body, wire, gen_vars,
                   parsed, out, pull_vars, ret, prev>>

(***************************************************************************)
(* ollama::pull_model                                                      *)
(***************************************************************************)

\* Contains that finds nothing
Contains_Never(seq, x) == FALSE

\* Contains that finds everything
Contains_Always(seq, x) == TRUE

\* Vec::contains
Contains(seq, x) == \E i \in 1..Len(seq) : seq[i] = x

\* main, when pull_model returned Err(e)
PullFailed(name, e) ==
    /\ ret' = Err("pull_model", e)
    /\ out' = Append(out, Printed("Error",
                 "Failed to pull model \"" \o name \o "\" to " \o Host \o ":" \o FmtInt(Port)
                 \o " -> " \o e))
    /\ log' = Append(log, Logged("Error", "ollama"))
    /\ pc' = "exit1"

\* main, when pull_model returned Ok(())
PullReturned(lg) ==
    /\ ret' = Ok("pull_model", <<>>)
    /\ log' = Append(lg, Logged("Info", "ollama"))
    /\ pc' = "exit0"

\* PullChunk that does not look the status up in layers
PullChunk_NoDedup ==
    /\ pc = "pulling"
    /\ wire # ""
    /\ \E n \in 1..Len(wire) :
       \E o \in {PullResponse(SubSeq(wire, 1, n))} :
          /\ wire' = Slice(wire, n + 1, Len(wire))
          /\ IF ~o.ok
             THEN /\ PullFailed(pull_arg.v, JsonError)
                  /\ UNCHANGED <<parsed, pull_vars>>
             ELSE IF o.v.error.some
             THEN /\ parsed' = Append(parsed, o.v)
                  /\ pb' = "Error"
                  /\ PullFailed(pull_arg.v, o.v.error.v)
                  /\ UNCHANGED <<layers, layer_num>>
             ELSE /\ parsed' = Append(parsed, o.v)
                  /\ UNCHANGED <<ret, out, pc, log>>
                  /\ IF ~o.v.status.some
                     THEN UNCHANGED pull_vars
                     ELSE IF o.v.digest.some
                     THEN /\ layers' = Append(layers, o.v.status.v)
                          /\ layer_num' = layer_num + 1
                          /\ pb' = "Downloading: Layer " \o FmtInt(layer_num + 1)
                     ELSE /\ pb' = IF o.v.status.v = "success" THEN "Done"
                                   ELSE o.v.status.v
                          /\ UNCHANGED <<layers, layer_num>>
    /\ UNCHANGED <<driver, db_vars, codec_vars, port_vars, status, calls, conversation, context, turn, sent, body, gen_vars, prev>>

\* one iteration of the loop of pull_model: a chunk arrives and is
\* deserialised as it is
PullChunk ==
    /\ pc = "pulling"
    /\ wire # ""
    /\ \E n \in 1..Len(wire) :
       \E o \in {PullResponse(SubSeq(wire, 1, n))} :
          /\ wire' = Slice(wire, n + 1, Len(wire))
          /\ IF ~o.ok
             THEN /\ PullFailed(pull_arg.v, JsonError)
                  /\ UNCHANGED <<parsed, pull_vars>>
             ELSE IF o.v.error.some
             THEN /\ parsed' = Append(parsed, o.v)
                  /\ pb' = "Error"
                  /\ PullFailed(pull_arg.v, o.v.error.v)
                  /\ UNCHANGED <<layers, layer_num>>
             ELSE /\ parsed' = Append(parsed, o.v)
                  /\ UNCHANGED <<ret, out, pc, log>>
                  /\ IF ~o.v.status.some \/ Contains(layers, o.v.status.v)
                     THEN UNCHANGED pull_vars
                     ELSE IF o.v.digest.some
                     THEN /\ layers' = Append(layers, o.v.status.v)
                          /\ layer_num' = layer_num + 1
                          /\ pb' = "Downloading: Layer " \o FmtInt(layer_num + 1)
                     ELSE /\ pb' = IF o.v.status.v = "success" THEN "Done"
                                   ELSE o.v.status.v
                          /\ UNCHANGED <<layers, layer_num>>
    /\ UNCHANGED <<driver, db_vars, codec_vars, port_vars, status, calls, conversation, context, turn, sent, body, gen_vars, prev>>

\* the transfer is over: pull_model returns Ok(())
PullEnd ==
    /\ pc = "pulling"
    /\ wire = ""
    /\ PullReturned(log)
    /\ UNCHANGED <<driver, db_vars, codec_vars, port_vars, status, calls, conversation, context, turn, sent, body, wire, gen_vars,
                   parsed, out, pull_vars, prev>>

\* send or chunk fails in the transport
PullTransportFails ==
    /\ pc = "pulling"
    /\ PullFailed(pull_arg.v, TransportError)
    /\ UNCHANGED <<driver, db_vars, codec_vars, port_vars, status, calls, conversation, context, turn, sent, body, wire, gen_vars,
                   parsed, pull_vars, prev>>

(***************************************************************************)
(* ollama::del_model                                                       *)
(***************************************************************************)

\* StatusCode::OK
StatusOK == 200

\* the line del_model prints before it looks the name up
DelAttempt(name) == Printed("Exit", "Attempting to delete model \"" \o name \o "\"")

\* main, when del_model returned Err(e); o is what was printed before
DelFailed(o, lg, name, e) ==
    /\ ret' = Err("del_model", e)
    /\ out' = Append(o, Printed("Error",
                 "Failed to delete model \"" \o name \o "\" from " \o Host \o ":"
                 \o FmtInt(Port) \o " -> " \o e))
    /\ log' = Append(lg, Logged("Error", "ollama"))
    /\ pc' = "exit1"

\* main, when del_model returned Ok(())
DelReturned(name) ==
    /\ ret' = Ok("del_model", <<>>)
    /\ out' = Append(out, Printed("Exit",
                 "Model \"" \o name \o "\" deleted from " \o Host \o ":" \o FmtInt(Port)))
    /\ log' = Append(log, Logged("Info", "ollama"))
    /\ pc' = "exit0"

\* DelResponse that takes every 2xx status for success
DelResponse_Any2xx ==
    /\ pc = "deleting"
    /\ \E st \in StatusCodes :
          /\ status' = Some(st)
          /\ IF st \div 100 # 2
             THEN DelFailed(out, log, del_arg.v, "Server error deleting model")
             ELSE DelReturned(del_arg.v)
    /\ UNCHANGED <<driver, db_vars, codec_vars, port_vars, calls, conversation, context, turn, sent, body, wire,
                   gen_vars, parsed, pull_vars, prev>>

\* the server answers the delete request; del_model reads the status of the
\* answer and nothing else
DelResponse ==
    /\ pc = "deleting"
    /\ \E st \in StatusCodes :
          /\ status' = Some(st)
          /\ IF st # StatusOK
             THEN DelFailed(out, log, del_arg.v, "Server error deleting model")
             ELSE DelReturned(del_arg.v)
    /\ UNCHANGED <<driver, db_vars, codec_vars, port_vars, calls, conversation, context, turn, sent, body, wire,
                   gen_vars, parsed, pull_vars, prev>>

\* send fails in the transport
DelTransportFails ==
    /\ pc = "deleting"
    /\ DelFailed(out, log, del_arg.v, TransportError)
    /\ UNCHANGED <<driver, db_vars, codec_vars, port_vars, status, calls, conversation, context, turn, sent, body, wire,
                   gen_vars, parsed, pull_vars, prev>>

(***************************************************************************)
(* ollama::get_postdata: the body of a request from the payload map.  A     *)
(* HashMap iterates its keys in an order of its own, which keys stands for. *)
(***************************************************************************)

\* texts typed at the prompt that get_postdata is tried on: plain, with
\* quotes, with a backslash inside and with a backslash at the end
PostQuestions == {"hi", "say \"hi\"", "noon\\dusk", "C:\\"}

\* contexts generate is given
PostContexts == {None, Some("[1, 2, 3]")}

\* the maps generate, pull_model and del_model build; the question comes
\* from main, which has replaced its double quotes
Payloads ==
    { GenPayload(replace(q, "\"", "'"), ctx, c) :
        q \in PostQuestions, ctx \in PostContexts,
        c \in [model : ConfModels, stream : BOOLEAN] }
    \cup { ("name" :> n) : n \in {"phi3:mini"} }

\* the orders a map with the keys of m can iterate them in
Orders(m) ==
    { o \in [1..Cardinality(DOMAIN m) -> DOMAIN m] :
        \A i, j \in 1..Cardinality(DOMAIN m) : o[i] = o[j] => i = j }

\* String::pop
pop(s) == IF s = "" THEN "" ELSE SubSeq(s, 1, Len(s) - 1)

\* Segments that puts every value between quotes
RECURSIVE Segments_AllQuoted(_, _)
Segments_AllQuoted(m, keys) ==
    IF keys = <<>> THEN ""
    ELSE "\"" \o Head(keys) \o "\":\"" \o m[Head(keys)] \o "\","
         \o Segments_AllQuoted(m, Tail(keys))

\* the loop of get_postdata: one segment for each key, each with its comma
RECURSIVE Segments(_, _)
Segments(m, keys) ==
    IF keys = <<>> THEN ""
    ELSE (IF Head(keys) = "context" \/ Head(keys) = "stream"
          THEN "\"" \o Head(keys) \o "\":" \o m[Head(keys)] \o ","
          ELSE "\"" \o Head(keys) \o "\":\"" \o m[Head(keys)] \o "\",")
         \o Segments(m, Tail(keys))

\* get_postdata: the brace, the segments, the last character dropped, the
\* closing brace
get_postdata(m, keys) == pop("{" \o Segments(m, keys)) \o "}"

\* a call of get_postdata
GetPostdata ==
    /\ postdata = ""
    /\ postdata' = get_postdata(payload, key_order)
    /\ UNCHANGED <<main_vars, db_vars, port_vars, payload, key_order, log>>

(***************************************************************************)
(* db: the conversation store.  The store is the data file: whether the    *)
(* Conversations table exists, and its rows in rowid order, which is the   *)
(* order SELECT returns them in.  Opening the file, running a statement    *)
(* that was prepared, the prompts and the log are taken to succeed;        *)
(* preparing the SELECT fails when the table is missing and may fail for   *)
(* any other reason sqlite has (a table of another layout, a locked or a   *)
(* damaged file).                                                          *)
(***************************************************************************)

\* the precision of the preview in a summary, {:.32}
PreviewLen == 32

\* what serde_json writes for one character of a string
JsonEscape(c) ==
    CASE c = "\"" -> "\\\""
      [] c = "\\" -> "\\\\"
      [] c = "\n" -> "\\n"
      [] c = "\t" -> "\\t"
      [] c = "\r" -> "\\r"
      [] OTHER -> c

RECURSIVE JsonEscapeAll(_)
JsonEscapeAll(s) ==
    IF s = "" THEN "" ELSE JsonEscape(Ch(s, 1)) \o JsonEscapeAll(Slice(s, 2, Len(s)))

\* serde_json::to_string of a Chat
ChatToJson(chat) ==
    "{\"role\":\"" \o JsonEscapeAll(chat.role) \o "\",\"content\":\""
        \o JsonEscapeAll(chat.content) \o "\"}"

RECURSIVE ChatsToJson(_)
ChatsToJson(cs) ==
    IF cs = <<>> THEN ""
    ELSE ChatToJson(Head(cs)) \o (IF Len(cs) > 1 THEN "," ELSE "") \o ChatsToJson(Tail(cs))

\* serde_json::to_string(&conversation) for conversation : Vec<Chat>
to_string(chats) == "[" \o ChatsToJson(chats) \o "]"

\* a JSON value is a Chat: an object with role and content, each given once
\* as a string
IsChat(j) ==
    /\ j.t = "obj"
    /\ \A key \in {"role", "content"} :
          \E i \in MembersOf(j, key) : MembersOf(j, key) = {i} /\ j.v[i].v.t = "str"

\* serde_json::from_str::<Vec<Chat>> of a parse result
ChatsOf(r) ==
    IF ~r.ok \/ r.v.t # "arr" THEN Fail
    ELSE IF \E i \in 1..Len(r.v.v) : ~IsChat(r.v.v[i]) THEN Fail
    ELSE [ok |-> TRUE,
          v |-> [i \in 1..Len(r.v.v) |->
                    Chat(Field(r.v.v[i], "role", "String").v,
                         Field(r.v.v[i], "content", "String").v)]]

Chats(text) == The({ChatsOf(r) : r \in {from_str(text)}})

\* what Debug writes for one character of a string
DebugEscape(c) ==
    CASE c = "\"" -> "\\\""
      [] c = "\\" -> "\\\\"
      [] c = "\n" -> "\\n"
      [] c = "\t" -> "\\t"
      [] c = "\r" -> "\\r"
      [] OTHER -> c

RECURSIVE DebugEscapeAll(_)
DebugEscapeAll(s) ==
    IF s = "" THEN "" ELSE DebugEscape(Ch(s, 1)) \o DebugEscapeAll(Slice(s, 2, Len(s)))

\* format!("{:?}", c) for c : String: the text between quotes, escaped
FmtStrDebug(s) == "\"" \o DebugEscapeAll(s) \o "\""

\* two decimal digits
Fmt2(n) == Digits[(n \div 10) + 1] \o Digits[(n % 10) + 1]

\* get_time_from_ts: "%Y-%m-%d %H%M" of the UTC time ts milliseconds after
\* the epoch, for the timestamps of the first day
get_time_from_ts(ts) ==
    "1970-01-01 " \o Fmt2(ts \div 3600000) \o Fmt2((ts \div 60000) % 60)

\* the number of occurrences of the character c in s
RECURSIVE Matches(_, _)
Matches(s, c) ==
    IF s = "" THEN 0
    ELSE (IF Ch(s, 1) = c THEN 1 ELSE 0) + Matches(Slice(s, 2, Len(s)), c)

\* the elements of seq whose position from i on is in K, in order
RECURSIVE Keep(_, _, _)
Keep(seq, K, i) ==
    IF i > Len(seq) THEN <<>>
    ELSE (IF i \in K THEN <<seq[i]>> ELSE <<>>) \o Keep(seq, K, i + 1)

\* DB_CREATE_STMT: CREATE TABLE IF NOT EXISTS
Create(st) == [st EXCEPT !.table = TRUE]

\* DB_INSERT_STMT
Insert(st, row) == [st EXCEPT !.rows = Append(@, row)]

\* the positions of the rows a DB_DELETE_STMT for each of the timestamps
\* leaves in the table
Remaining(st, timestamps) ==
    {i \in 1..Len(st.rows) : st.rows[i].timestamp \notin timestamps}

\* what a function of db returns: Ok, Err(e), or a panic of an unwrap
DbOk(v) == [ok |-> TRUE, panic |-> FALSE, v |-> v]

DbErr(e) == [ok |-> FALSE, panic |-> FALSE, err |-> e]

DbPanic == [ok |-> FALSE, panic |-> TRUE]

NoRecords == "No responses saved"

\* records the store holds at most
MaxRecords == 2

\* values of Local::now().timestamp_millis()
Timestamps == {59999, 60000}

\* values of conf in a call of save_conversation
DbConfs == {[host |-> Host, port |-> Port, model |-> m] : m \in ConfModels}

\* values of conversation in a call of save_conversation: no turn, one
\* question and its answer, and two questions of which the first is longer
\* than a preview and holds a quote and a backslash, with a newline in its
\* answer
Conversations ==
    { <<>>,
      <<Chat("user", "hi"), Chat("assistant", "Hello")>>,
      <<Chat("user", "Why is \"the sky\" blue at noon\\dusk, R2?"),
        Chat("assistant", "a\nb"),
        Chat("user", "more"),
        Chat("assistant", "ok")>> }

\* values of context in a call of save_conversation
SaveContexts == {None, Some("[1, 2, 3]")}

\* save_conversation without the test for an empty conversation
save_conversation_NoEmptyCheck(st, chats, ctx, c, ts) ==
    DbOk(Insert(Create(st),
                [timestamp |-> ts,
                 host |-> c.host \o ":" \o FmtInt(c.port),
                 model |-> c.model,
                 conversation |-> to_string(chats),
                 context |-> IF ctx.some THEN FmtStrDebug(ctx.v) ELSE "[]"]))

\* save_conversation at time ts: the store after the call
save_conversation(st, chats, ctx, c, ts) ==
    IF chats = <<>> THEN DbOk(st)
    ELSE DbOk(Insert(Create(st),
                     [timestamp |-> ts,
                      host |-> c.host \o ":" \o FmtInt(c.port),
                      model |-> c.model,
                      conversation |-> to_string(chats),
                      context |-> IF ctx.some THEN FmtStrDebug(ctx.v) ELSE "[]"]))

\* Summary without the model
Summary_NoModel(entry) ==
    get_time_from_ts(entry.timestamp) \o ": " \o entry.host \o " -> "
        \o Slice(entry.conversation[1].content, 1, PreviewLen)
        \o " [" \o FmtInt(Matches(entry.context, ",") + 1) \o " context len]"

\* the summary of an entry with at least one turn
Summary(entry) ==
    get_time_from_ts(entry.timestamp) \o ": " \o entry.model \o "@" \o entry.host \o " -> "
        \o Slice(entry.conversation[1].content, 1, PreviewLen)
        \o " [" \o FmtInt(Matches(entry.context, ",") + 1) \o " context len]"

\* the loop over the rows: the entries and the summaries of rows, after
\* those in acc; the unwrap of a conversation that is no Vec<Chat>, or of
\* the first turn of an empty one, panics
RECURSIVE EntriesFrom(_, _)
EntriesFrom(rows, acc) ==
    IF rows = <<>> THEN acc
    ELSE The({ IF ~c.ok \/ c.v = <<>> THEN DbPanic
               ELSE The({ EntriesFrom(Tail(rows),
                              DbOk([entries |-> Append(acc.v.entries, e),
                                    conversations |-> Append(acc.v.conversations,
                                                             Summary(e))]))
                          : e \in {[Head(rows) EXCEPT !.conversation = c.v]} })
               : c \in {Chats(Head(rows).conversation)} })

\* get_conversation_entries that returns the empty lists
get_conversation_entries_NoEmptyCheck(st, prepared) ==
    IF ~st.table \/ ~prepared THEN DbErr(NoRecords)
    ELSE EntriesFrom(st.rows, DbOk([entries |-> <<>>, conversations |-> <<>>]))

\* get_conversation_entries: prepared says whether preparing the SELECT
\* succeeds, which it does not without the table
get_conversation_entries(st, prepared) ==
    IF ~st.table \/ ~prepared THEN DbErr(NoRecords)
    ELSE The({ IF r.ok /\ r.v.entries = <<>> THEN DbErr(NoRecords) ELSE r
               : r \in {EntriesFrom(st.rows,
                                    DbOk([entries |-> <<>>, conversations |-> <<>>]))} })

\* the lines list_conversations and delete_conversations print for summaries
Lines(summaries) == [i \in 1..Len(summaries) |-> Printed("Info", summaries[i])]

\* the lines restore_conversation prints for the entry chosen
RestorePrinted(entry) ==
    <<Printed("Info", "* Restoring conversation *\n" \o get_time_from_ts(entry.timestamp))>>
    \o [i \in 1..Len(entry.conversation) |->
          CASE entry.conversation[i].role = "user" ->
                  Printed("Exit", "\n" \o entry.conversation[i].content \o "\n")
            [] entry.conversation[i].role = "assistant" ->
                  Printed("Answer", entry.conversation[i].content)
            [] OTHER -> Printed("Info", entry.conversation[i].content)]

\* Restored that returns the context column as it is
Restored_KeepsQuotes(entry) ==
    [context |-> Some(entry.context), conversation |-> entry.conversation]

\* what restore_conversation returns for the entry chosen
Restored(entry) ==
    [context |-> Some(replace(entry.context, "\"", "")),
     conversation |-> entry.conversation]

\* a call of save_conversation
SaveConversation ==
    /\ \E chats \in Conversations, ctx \in SaveContexts, c \in DbConfs :
       \E ts \in {t \in Timestamps : t >= now} :
       \E r \in {save_conversation(store, chats, ctx, c, ts)} :
          /\ Len(r.v.rows) <= MaxRecords
          /\ store' = r.v
          /\ passed' = IF r.v.rows = store.rows THEN passed
                       ELSE Append(passed, [conversation |-> chats, context |-> ctx])
          /\ now' = IF chats = <<>> THEN now ELSE ts
          /\ db_ret' = [fn |-> "save_conversation", pre |-> store,
                        conversation |-> chats, context |-> ctx, conf |-> c,
                        ret |-> DbOk(<<>>)]
    /\ db_out' = <<>>
    /\ log' = IF store'.rows = store.rows THEN <<>> ELSE <<Logged("Debug", "db")>>
    /\ UNCHANGED <<main_vars, codec_vars, port_vars>>

\* a call of list_conversations
ListConversations ==
    /\ \E prepared \in (IF store.table THEN BOOLEAN ELSE {FALSE}) :
       \E g \in {get_conversation_entries(store, prepared)} :
          /\ db_ret' = [fn |-> "list_conversations", pre |-> store,
                        prepared |-> prepared, prompted |-> FALSE,
                        ret |-> IF g.ok THEN DbOk(<<>>) ELSE g]
          /\ db_out' = IF g.ok
                       THEN <<Printed("Exit", "Previous conversations:")>>
                            \o Lines(g.v.conversations)
                       ELSE <<>>
    /\ log' = <<>>
    /\ UNCHANGED <<store, passed, now>>
    /\ UNCHANGED <<main_vars, codec_vars, port_vars>>

\* a call of restore_conversation; the user chooses idx
RestoreConversation ==
    /\ \E prepared \in (IF store.table THEN BOOLEAN ELSE {FALSE}) :
       \E g \in {get_conversation_entries(store, prepared)} :
          IF ~g.ok
          THEN /\ db_ret' = [fn |-> "restore_conversation", pre |-> store,
                             prepared |-> prepared, prompted |-> FALSE, ret |-> g]
               /\ db_out' = <<>>
          ELSE \E idx \in 1..Len(g.v.entries) :
               /\ db_ret' = [fn |-> "restore_conversation", pre |-> store,
                             prepared |-> prepared, prompted |-> TRUE, idx |-> idx,
                             ret |-> DbOk(Restored(g.v.entries[idx]))]
               /\ db_out' = RestorePrinted(g.v.entries[idx])
    /\ log' = <<>>
    /\ UNCHANGED <<store, passed, now>>
    /\ UNCHANGED <<main_vars, codec_vars, port_vars>>

\* DeleteConversations that does not ask for the confirmation
DeleteConversations_NoConfirm ==
    /\ \E prepared \in (IF store.table THEN BOOLEAN ELSE {FALSE}) :
       \E g \in {get_conversation_entries(store, prepared)} :
          IF ~g.ok
          THEN /\ db_ret' = [fn |-> "delete_conversations", pre |-> store,
                             prepared |-> prepared, prompted |-> FALSE, ret |-> g]
               /\ db_out' = <<>>
               /\ UNCHANGED <<store, passed>>
          ELSE \E idxs \in SUBSET (1..Len(g.v.entries)), confirm \in BOOLEAN :
               /\ idxs = {} => ~confirm
               /\ db_ret' = [fn |-> "delete_conversations", pre |-> store,
                             prepared |-> prepared, prompted |-> TRUE, idxs |-> idxs,
                             confirmed |-> confirm, ret |-> DbOk(<<>>)]
               /\ IF idxs = {}
                  THEN /\ db_out' = <<>>
                       /\ UNCHANGED <<store, passed>>
                  ELSE \E K \in {Remaining(store, {g.v.entries[i].timestamp : i \in idxs})} :
                       /\ db_out' = <<Printed("Error", "DELETE (action is irreversible):")>>
                                    \o Lines(Keep(g.v.conversations, idxs, 1))
                                    \o <<Printed("Exit", "Conversations DELETED")>>
                       /\ store' = [store EXCEPT !.rows = Keep(store.rows, K, 1)]
                       /\ passed' = Keep(passed, K, 1)
    /\ log' = IF store'.rows = store.rows THEN <<>> ELSE <<Logged("Info", "db")>>
    /\ UNCHANGED now
    /\ UNCHANGED <<main_vars, codec_vars, port_vars>>

\* a call of delete_conversations; the user chooses idxs and, when it is
\* not empty, answers the confirmation
DeleteConversations ==
    /\ \E prepared \in (IF store.table THEN BOOLEAN ELSE {FALSE}) :
       \E g \in {get_conversation_entries(store, prepared)} :
          IF ~g.ok
          THEN /\ db_ret' = [fn |-> "delete_conversations", pre |-> store,
                             prepared |-> prepared, prompted |-> FALSE, ret |-> g]
               /\ db_out' = <<>>
               /\ UNCHANGED <<store, passed>>
          ELSE \E idxs \in SUBSET (1..Len(g.v.entries)), confirm \in BOOLEAN :
               /\ idxs = {} => ~confirm
               /\ db_ret' = [fn |-> "delete_conversations", pre |-> store,
                             prepared |-> prepared, prompted |-> TRUE, idxs |-> idxs,
                             confirmed |-> confirm, ret |-> DbOk(<<>>)]
               /\ IF idxs = {}
                  THEN /\ db_out' = <<>>
                       /\ UNCHANGED <<store, passed>>
                  ELSE IF ~confirm
                  THEN /\ db_out' = <<Printed("Error", "DELETE (action is irreversible):")>>
                                    \o Lines(Keep(g.v.conversations, idxs, 1))
                       /\ UNCHANGED <<store, passed>>
                  ELSE \E K \in {Remaining(store, {g.v.entries[i].timestamp : i \in idxs})} :
                       /\ db_out' = <<Printed("Error", "DELETE (action is irreversible):")>>
                                    \o Lines(Keep(g.v.conversations, idxs, 1))
                                    \o <<Printed("Exit", "Conversations DELETED")>>
                       /\ store' = [store EXCEPT !.rows = Keep(store.rows, K, 1)]
                       /\ passed' = Keep(passed, K, 1)
    /\ log' = IF store'.rows = store.rows THEN <<>> ELSE <<Logged("Info", "db")>>
    /\ UNCHANGED now
    /\ UNCHANGED <<main_vars, codec_vars, port_vars>>

(***************************************************************************)
(* lib: the port of the server                                             *)
(***************************************************************************)

\* the largest u16
U16Max == 65535

\* the bound get_config holds the port under
PortBound == 65535

ParseEmpty == "cannot parse integer from empty string"

ParseInvalidDigit == "invalid digit found in string"

ParsePosOverflow == "number too large to fit in target type"

TomlError == "toml::de::Error"

\* the digits of s from position i on, added to acc: a character that is
\* no digit fails, then a product or a sum beyond u16 fails
RECURSIVE parse_digits(_, _, _)
parse_digits(s, i, acc) ==
    IF i > Len(s) THEN Ok("parse", acc)
    ELSE IF ~IsDigit(Ch(s, i)) THEN Err("parse", ParseInvalidDigit)
    ELSE IF acc * 10 > U16Max THEN Err("parse", ParsePosOverflow)
    ELSE IF acc * 10 + DigitVal(Ch(s, i)) > U16Max THEN Err("parse", ParsePosOverflow)
    ELSE parse_digits(s, i + 1, acc * 10 + DigitVal(Ch(s, i)))

\* str::parse::<u16>: decimal digits after an optional plus sign, no
\* whitespace, the value within u16
parse_u16(s) ==
    IF s = "" THEN Err("parse", ParseEmpty)
    ELSE IF s \in {"+", "-"} THEN Err("parse", ParseInvalidDigit)
    ELSE IF Ch(s, 1) = "+" THEN parse_digits(s, 2, 0)
    ELSE parse_digits(s, 1, 0)

\* the port of rtwo.toml read into Config.port : u16
toml_u16(n) ==
    IF n >= 0 /\ n <= U16Max THEN Ok("toml", n) ELSE Err("toml", TomlError)

\* validate_port_str: the text is a port when it parses as a u16
validate_port_str(port_str) ==
    IF ~parse_u16(port_str).ok THEN Err("validate_port_str", "Invalid port")
    ELSE Ok("validate_port_str", <<>>)

\* get_config that holds the port under no bound
get_config_port_AnyU16(file_port, flag) ==
    LET from_file == toml_u16(file_port)
        given == IF flag.some THEN parse_u16(flag.v) ELSE from_file
    IN  IF ~from_file.ok THEN Err("get_config", from_file.err)
        ELSE IF ~given.ok THEN Err("get_config", given.err)
        ELSE Ok("get_config", given.v)

\* get_config, the port: the one of the file, replaced by the flag when
\* the flag is given, and then held under the bound
get_config_port(file_port, flag) ==
    LET from_file == toml_u16(file_port)
        given == IF flag.some THEN parse_u16(flag.v) ELSE from_file
    IN  IF ~from_file.ok THEN Err("get_config", from_file.err)
        ELSE IF ~given.ok THEN Err("get_config", given.err)
        ELSE IF ~(given.v < PortBound) THEN Err("get_config", "Port out of bounds")
        ELSE Ok("get_config", given.v)

\* texts typed at the port prompt or given with the port flag
PortTexts ==
    {"0", "80", "11434", "65534", "65535", "65536", "99999", "+80", "080",
     "-1", "", "+", "8o", " 80"}

\* integers rtwo.toml may hold as the port: every u16 and one to each side
TomlPorts == (0 - 1)..(U16Max + 1)

\* ports of the file the flag is tried over
FlagFiles == {11434, 65535}

\* setup_file_struct without a configuration file: a text is typed at the
\* port prompt; one validate_port_str refuses is asked for again; one it
\* accepts is parsed and, when the server answers there, written to the
\* file
PromptPort ==
    /\ conf_file = None
    /\ port_ret = NoCall
    /\ \E text \in PortTexts, reachable \in BOOLEAN :
          /\ port_input' = text
          /\ port_check' = Some(validate_port_str(text))
          /\ conf_file' = IF validate_port_str(text).ok /\ reachable
                          THEN Some(parse_u16(text).v)
                          ELSE None
    /\ UNCHANGED <<main_vars, db_vars, codec_vars, port_flag, port_ret, log>>

\* a call of get_config on the file there is
GetConfig ==
    /\ conf_file.some
    /\ port_ret = NoCall
    /\ port_ret' = get_config_port(conf_file.v, port_flag)
    /\ log' = IF port_ret'.ok THEN <<Logged("Info", "conf")>> ELSE <<>>
    /\ UNCHANGED <<main_vars, db_vars, codec_vars, conf_file, port_flag, port_input,
                   port_check>>

(***************************************************************************)
(* main                                                                    *)
(***************************************************************************)

\* get_config: the configuration of the file with the flags applied; the
\* save flag sets save, and no flag clears it
get_config(file, m) == [file EXCEPT !.save = file.save \/ m.save]

\* the earliest value of the clock
Earliest == CHOOSE t \in Timestamps : \A u \in Timestamps : t <= u

\* the conversation and the context an earlier session has saved
Earlier ==
    [conversation |-> <<Chat("user", "hi"), Chat("assistant", "Hello")>>,
     context |-> Some("[1, 2, 3]")]

\* the data file that session has left
OneSaved ==
    save_conversation(NoStore, Earlier.conversation, Earlier.context,
                      [host |-> Host, port |-> Port, model |-> "llama3"], Earliest).v

\* sessions with flags: save asked for on the command line, no_save given
\* with save set and not set in the file, restore with a data file that
\* holds a record and save set in the file, and restore without a data
\* file; modes are the values of stream they are run with
Sessions ==
    { [save |-> FALSE, matches |-> [NoFlags EXCEPT !.save = TRUE], saved |-> FALSE,
       modes |-> {FALSE}],
      [save |-> TRUE, matches |-> [NoFlags EXCEPT !.no_save = TRUE], saved |-> FALSE,
       modes |-> BOOLEAN],
      [save |-> FALSE, matches |-> [NoFlags EXCEPT !.no_save = TRUE], saved |-> FALSE,
       modes |-> {FALSE}],
      [save |-> TRUE, matches |-> [NoFlags EXCEPT !.restore = TRUE], saved |-> TRUE,
       modes |-> BOOLEAN],
      [save |-> FALSE, matches |-> [NoFlags EXCEPT !.restore = TRUE], saved |-> FALSE,
       modes |-> {FALSE}] }

\* the runs of main: without flags, every model, mode, catalog, pull and del
\* argument; the sessions with flags against a catalog that lists the
\* model; and a model name that is a part of a catalog name
Runs ==
    { [file |-> [model |-> m, stream |-> st, save |-> FALSE], matches |-> NoFlags,
       catalog |-> c, pull |-> p, del |-> d, saved |-> FALSE] :
         m \in ConfModels, st \in BOOLEAN, c \in Catalogs, p \in PullArgs, d \in DelArgs }
    \cup
    UNION { { [file |-> [model |-> "llama3", stream |-> st, save |-> x.save],
                matches |-> x.matches, catalog |-> <<"llama3:latest">>,
                pull |-> None, del |-> None, saved |-> x.saved] : st \in x.modes } :
            x \in Sessions }
    \cup
    { [file |-> [model |-> "lama3", stream |-> FALSE, save |-> FALSE], matches |-> NoFlags,
       catalog |-> <<"llama3:latest">>, pull |-> None, del |-> None, saved |-> FALSE] }

Init ==
    /\ \E r \in Runs :
          /\ conf = get_config(r.file, r.matches)
          /\ matches = r.matches
          /\ avail_models = r.catalog
          /\ pull_arg = r.pull
          /\ del_arg = r.del
          /\ store = IF r.saved THEN OneSaved ELSE NoStore
          /\ passed = IF r.saved THEN <<Earlier>> ELSE <<>>
          /\ now = IF r.saved THEN Earliest ELSE 0
    /\ Idle
    /\ NoPost
    /\ NoPort

\* what get_config and get_models log when they succeed
Started ==
    <<Logged("Info", "conf"), Logged("Debug", "ollama"), Logged("Debug", "ollama")>>

\* setup_file_struct fails: the error is printed with println and the
\* process exits
SetupFails ==
    /\ pc = "start"
    /\ pc' = "exit1"
    /\ UNCHANGED <<driver, db_vars, codec_vars, port_vars, log, status, calls, conversation, context, turn,
                   sent, body, wire, gen_vars, parsed, out, pull_vars, ret, prev>>

\* get_config fails (the file cannot be read or parsed, or the port is out
\* of bounds): the error is logged, printed with println and the process
\* exits
GetConfigFails ==
    /\ pc = "start"
    /\ log' = Append(log, Logged("Error", "main"))
    /\ pc' = "exit1"
    /\ UNCHANGED <<driver, db_vars, codec_vars, port_vars, status, calls, conversation, context, turn,
                   sent, body, wire, gen_vars, parsed, out, pull_vars, ret, prev>>

\* get_models fails: the error is logged and printed and the process exits
GetModelsFails ==
    /\ pc = "start"
    /\ log' = log \o <<Logged("Info", "conf"), Logged("Debug", "ollama"),
                       Logged("Error", "ollama")>>
    /\ out' = Append(out, Printed("Error",
                 "Failed to get available models from " \o Host \o ":" \o FmtInt(Port)
                 \o " -> " \o TransportError))
    /\ pc' = "exit1"
    /\ UNCHANGED <<driver, db_vars, codec_vars, port_vars, status, calls, conversation, context, turn, sent, body, wire, gen_vars,
                   parsed, pull_vars, ret, prev>>

\* main up to the question loop: the configured model is looked up in the
\* catalog, then a pull argument is served, else a del argument, else a
\* conversation is restored when the flag asks for it and the loop is
\* entered.  The command line has no list, list_models and del_convo flag.
Start ==
    /\ pc = "start"
    /\ IF ~\E i \in 1..Len(avail_models) : str_contains(avail_models[i], conf.model)
       THEN /\ out' = Append(out, Printed("Error",
                        "Model \"" \o conf.model \o "\" not available."))
            /\ log' = Append(Started, Logged("Error", "ollama"))
            /\ pc' = "exit1"
            /\ UNCHANGED <<calls, sent, body, wire, pb, ret, conversation, context,
                           db_ret, db_out>>
       ELSE IF pull_arg.some
       THEN IF Contains(avail_models, pull_arg.v)
            THEN /\ out' = Append(out, Printed("Exit", "Model already exists on server"))
                 /\ PullReturned(Append(Started, Logged("Debug", "ollama")))
                 /\ UNCHANGED <<calls, sent, body, wire, pb, conversation, context,
                                db_ret, db_out>>
            ELSE /\ sent' = ("name" :> pull_arg.v)
                 /\ calls' = Append(calls, Request("POST", "pull"))
                 /\ \E b \in PullBodies : body' = b /\ wire' = b
                 /\ out' = Append(out, Printed("Exit", "Downloading \"" \o pull_arg.v \o "\""))
                 /\ pb' = "Downloading \"" \o pull_arg.v \o "\""
                 /\ log' = Append(Started, Logged("Debug", "ollama"))
                 /\ pc' = "pulling"
                 /\ UNCHANGED <<ret, conversation, context, db_ret, db_out>>
       ELSE IF del_arg.some
       THEN IF ~Contains(avail_models, del_arg.v)
            THEN /\ DelFailed(Append(out, DelAttempt(del_arg.v)), Started, del_arg.v,
                              "Model not found")
                 /\ UNCHANGED <<calls, sent, body, wire, pb, conversation, context,
                                db_ret, db_out>>
            ELSE /\ sent' = ("name" :> del_arg.v)
                 /\ calls' = Append(calls, Request("DELETE", "delete"))
                 /\ out' = Append(out, DelAttempt(del_arg.v))
                 /\ log' = Append(Started, Logged("Debug", "ollama"))
                 /\ pc' = "deleting"
                 /\ UNCHANGED <<body, wire, pb, ret, conversation, context, db_ret, db_out>>
       ELSE IF matches.restore
       THEN \E prepared \in (IF store.table THEN BOOLEAN ELSE {FALSE}) :
            \E g \in {get_conversation_entries(store, prepared)} :
               IF ~g.ok
               THEN /\ db_ret' = [fn |-> "restore_conversation", pre |-> store,
                                  prepared |-> prepared, prompted |-> FALSE, ret |-> g]
                    /\ db_out' = <<>>
                    /\ out' = Append(out, Printed("Error",
                                 "Failed to restore conversation -> " \o g.err))
                    /\ log' = Append(Started, Logged("Error", "main"))
                    /\ pc' = "exit1"
                    /\ UNCHANGED <<calls, sent, body, wire, pb, ret, conversation, context>>
               ELSE \E idx \in 1..Len(g.v.entries) :
                    /\ db_ret' = [fn |-> "restore_conversation", pre |-> store,
                                  prepared |-> prepared, prompted |-> TRUE, idx |-> idx,
                                  ret |-> DbOk(Restored(g.v.entries[idx]))]
                    /\ db_out' = RestorePrinted(g.v.entries[idx])
                    /\ conversation' = Restored(g.v.entries[idx]).conversation
                    /\ context' = Restored(g.v.entries[idx]).context
                    /\ log' = Started
                    /\ pc' = "ask"
                    /\ UNCHANGED <<calls, sent, body, wire, pb, ret, out>>
       ELSE /\ log' = Started
            /\ pc' = "ask"
            /\ UNCHANGED <<calls, sent, body, wire, pb, ret, out, conversation, context,
                           db_ret, db_out>>
    /\ UNCHANGED <<driver, store, passed, now, codec_vars, port_vars, status, turn, gen_vars, parsed,
                   layers, layer_num, prev>>

\* main after the question loop: with conf.save the conversation is saved
\* at the time the clock shows, and a data file that cannot be opened is
\* fatal; then "Goodbye".  The conversation holds a turn at least.
Finish ==
    /\ pc = "save"
    /\ IF conf.save
       THEN \E opened \in BOOLEAN :
            IF ~opened
            THEN /\ db_ret' = [fn |-> "save_conversation", pre |-> store,
                               conversation |-> conversation, context |-> context,
                               conf |-> [host |-> Host, port |-> Port, model |-> conf.model],
                               ret |-> DbErr("unable to open database file")]
                 /\ log' = Append(log, Logged("Error", "db"))
                 /\ out' = Append(out, Printed("Error",
                              "\nFailed to save conversation " \o Host \o ":" \o FmtInt(Port)
                              \o " -> unable to open database file"))
                 /\ pc' = "exit1"
                 /\ UNCHANGED <<store, passed, now>>
            ELSE \E ts \in {t \in Timestamps : t >= now} :
                 \E r \in {save_conversation(store, conversation, context,
                              [host |-> Host, port |-> Port, model |-> conf.model], ts)} :
                 /\ store' = r.v
                 /\ passed' = Append(passed, [conversation |-> conversation,
                                              context |-> context])
                 /\ now' = ts
                 /\ db_ret' = [fn |-> "save_conversation", pre |-> store,
                               conversation |-> conversation, context |-> context,
                               conf |-> [host |-> Host, port |-> Port, model |-> conf.model],
                               ret |-> DbOk(<<>>)]
                 /\ log' = Append(log, Logged("Debug", "db"))
                 /\ out' = Append(out, Printed("Exit", "Goodbye"))
                 /\ pc' = "exit0"
       ELSE /\ out' = Append(out, Printed("Exit", "Goodbye"))
            /\ pc' = "exit0"
            /\ UNCHANGED <<store, passed, now, db_ret, log>>
    /\ db_out' = <<>>
    /\ UNCHANGED <<driver, codec_vars, port_vars, status, calls, conversation, context, turn, sent, body,
                   wire, gen_vars, parsed, pull_vars, ret, prev>>

Next ==
    \/ SetupFails
    \/ GetConfigFails
    \/ GetModelsFails
    \/ Start
    \/ Ask
    \/ GenChunk
    \/ GenEnd
    \/ GenBatch
    \/ GenTransportFails
    \/ AskAgain
    \/ Finish
    \/ PullChunk
    \/ PullEnd
    \/ PullTransportFails
    \/ DelResponse
    \/ DelTransportFails

Spec == Init /\ [][Next]_vars

\* the calls into db, one after another on one data file, each with the
\* arguments and the choices of the user it may get
DbInit ==
    /\ conf = [model |-> "llama3", stream |-> TRUE, save |-> FALSE]
    /\ matches = NoFlags
    /\ avail_models = <<>>
    /\ pull_arg = None
    /\ del_arg = None
    /\ Fresh
    /\ NoPost
    /\ NoPort

DbNext ==
    \/ SaveConversation
    \/ ListConversations
    \/ RestoreConversation
    \/ DeleteConversations

DbSpec == DbInit /\ [][DbNext]_vars

\* the calls of get_postdata, each on a map the callers build and in an
\* order the map may iterate it in
CodecInit ==
    /\ conf = [model |-> "llama3", stream |-> TRUE, save |-> FALSE]
    /\ matches = NoFlags
    /\ avail_models = <<>>
    /\ pull_arg = None
    /\ del_arg = None
    /\ Fresh
    /\ payload \in Payloads
    /\ key_order \in Orders(payload)
    /\ postdata = ""
    /\ NoPort

CodecNext == GetPostdata

CodecSpec == CodecInit /\ [][CodecNext]_vars

\* the port from the setup prompt or the file, and from the flag, to
\* get_config: every integer the file may hold without the flag, the texts
\* of the flag over two files, and a first start with the prompt
ConfInit ==
    /\ conf = [model |-> "llama3", stream |-> TRUE, save |-> FALSE]
    /\ matches = NoFlags
    /\ avail_models = <<>>
    /\ pull_arg = None
    /\ del_arg = None
    /\ Fresh
    /\ NoPost
    /\ \/ conf_file \in {Some(n) : n \in TomlPorts} /\ port_flag = None
       \/ conf_file \in {Some(n) : n \in FlagFiles}
          /\ port_flag \in {Some(t) : t \in PortTexts}
       \/ conf_file = None /\ port_flag \in {None, Some("80"), Some("65535")}
    /\ port_input = ""
    /\ port_check = None
    /\ port_ret = NoCall

ConfNext ==
    \/ PromptPort
    \/ GetConfig

ConfSpec == ConfInit /\ [][ConfNext]_vars

(***************************************************************************)
(* Properties                                                              *)
(***************************************************************************)

RECURSIVE Concat(_)
Concat(ss) == IF ss = <<>> THEN "" ELSE Head(ss) \o Concat(Tail(ss))

\* the texts printed as answers, in order
Answers(o) ==
    LET IsAnswer(x) == x.ct = "Answer"
        a == SelectSeq(o, IsAnswer)
    IN  [i \in 1..Len(a) |-> a[i].s]

\* every record has a response and no error
AllAnswered(rs) == \A i \in 1..Len(rs) : rs[i].response.some /\ ~rs[i].error.some

ResponsesOf(rs) == [i \in 1..Len(rs) |-> rs[i].response.v]

IsDone(r) == r.done.some /\ r.done.v

\* a call of generate has returned, and not because the transport failed
GenReturned == ret.fn = "generate" /\ (~ret.ok => ret.err # TransportError)

\* the complete JSON values a text is made of, in order, or Fail
RECURSIVE ValuesFrom(_, _, _)
ValuesFrom(s, i, acc) ==
    LET j == SkipWs(s, i) IN
    IF j > Len(s) THEN [ok |-> TRUE, v |-> acc]
    ELSE LET r == ParseValue(s, j) IN
         IF ~r.ok THEN Fail
         ELSE ValuesFrom(s, r.pos, Append(acc, SubSeq(s, j, r.pos - 1)))

\* C1: a complete record split into consecutive chunks in any way is
\* deserialised, after the last chunk, to the record of the unsplit text.
C1_SplitRecordParsesAsWhole ==
    (conf.stream /\ GenReturned /\ GenerateResponse(body).ok)
        => parsed = <<GenerateResponse(body).v>>

\* C2: a chunk that holds N >= 1 complete records and arrives on an empty
\* buffer yields those N records, in the order they were sent.
C2_WholeRecordsAllParsed ==
    [][ LET chunk == SubSeq(wire, 1, Len(wire) - Len(wire'))
            recs == ValuesFrom(chunk, 1, <<>>)
        IN  (/\ pc = "recv"
             /\ raw_resp = ""
             /\ Len(wire') < Len(wire)
             /\ recs.ok
             /\ Len(recs.v) >= 1
             /\ \A i \in 1..Len(recs.v) :
                   /\ GenerateResponse(recs.v[i]).ok
                   /\ AllAnswered(<<GenerateResponse(recs.v[i]).v>>))
            => parsed' = parsed \o [i \in 1..Len(recs.v) |-> GenerateResponse(recs.v[i]).v]
      ]_vars

\* the last record with done = true that carries a context, 0 if none
LastTerminal(rs) ==
    LET T == {i \in 1..Len(rs) : IsDone(rs[i]) /\ rs[i].context.some} IN
    IF T = {} THEN 0 ELSE CHOOSE i \in T : \A j \in T : j <= i

\* C3: a streaming call that succeeds returns the response texts of all its
\* records concatenated in arrival order, and the context of the terminal
\* record: the returned text reads back as that sequence of integers.
C3_StreamTextAndContext ==
    (conf.stream /\ ret.fn = "generate" /\ ret.ok)
        => /\ AllAnswered(parsed)
           /\ ret.v.response = Concat(ResponsesOf(parsed))
           /\ LastTerminal(parsed) # 0
                => /\ from_str(ret.v.context).ok
                   /\ from_str(ret.v.context).v
                        = JArr([k \in 1..Len(parsed[LastTerminal(parsed)].context.v)
                                  |-> JInt(parsed[LastTerminal(parsed)].context.v[k])])

C3_Witness ==
    /\ conf.stream /\ ret.fn = "generate" /\ ret.ok
    /\ Len(parsed) = 2
    /\ ret.v.response = "Hello"
    /\ ret.v.context = "[1, 2, 3]"

\* C4: a streaming call in which a record with done = true carries no
\* context does not return success.
C4_TerminalNeedsContext ==
    (conf.stream /\ ret.fn = "generate"
       /\ \E i \in 1..Len(parsed) : IsDone(parsed[i]) /\ ~parsed[i].context.some)
        => ~ret.ok

\* C5: a streaming record that carries error is the last one processed:
\* generate returns that error, the process exits, the record and whatever
\* follows it is neither read nor printed as an answer, and no assistant
\* turn or context reaches the caller.
C5_ErrorState ==
    \A i \in 1..Len(parsed) :
        (conf.stream /\ turn > 0 /\ parsed[i].error.some)
            => /\ i = Len(parsed)
               /\ ret = Err("generate", parsed[i].error.v)
               /\ pc = "exit1"
               /\ AllAnswered(SubSeq(parsed, 1, i - 1))
               /\ Answers(out) = ResponsesOf(SubSeq(parsed, 1, i - 1))
               /\ conversation[Len(conversation)].role = "user"
               /\ (turn = 1 => context = IF matches.restore THEN db_ret.ret.v.context
                                          ELSE None)
               /\ (turn > 1 => context = Some(prev.v.context))

C5_ErrorFailsTurn ==
    /\ []C5_ErrorState
    /\ [][ (conf.stream /\ turn > 0 /\ \E i \in 1..Len(parsed) : parsed[i].error.some)
             => UNCHANGED <<wire, parsed, out, conversation, context>> ]_vars

C5_Witness ==
    /\ conf.stream /\ turn > 0
    /\ Len(parsed) >= 1
    /\ parsed[Len(parsed)].error.some
    /\ wire # ""
    /\ pc = "exit1"

\* C6: in batch mode the record decides the turn: its error fails the turn
\* with that message, a record with neither error nor response fails it
\* with "Response not found", both without an answer printed; otherwise the
\* response is printed once, whole, and the turn succeeds with it.
C6_BatchRecordDecides ==
    (~conf.stream /\ GenReturned /\ GenerateResponse(body).ok)
        => LET r == GenerateResponse(body).v IN
           /\ parsed = <<r>>
           /\ IF r.error.some
              THEN ret = Err("generate", r.error.v) /\ Answers(out) = <<>>
              ELSE IF ~r.response.some
              THEN ret = Err("generate", "Response not found") /\ Answers(out) = <<>>
              ELSE /\ ret.ok
                   /\ ret.v.response = r.response.v
                   /\ Answers(out) = <<r.response.v>>
                   /\ conversation[Len(conversation)] = Chat("assistant", r.response.v)

C6_Witness ==
    /\ ~conf.stream /\ GenReturned
    /\ GenerateResponse(body).ok
    /\ GenerateResponse(body).v.error.some
    /\ GenerateResponse(body).v.response.some
    /\ pc = "exit1"

\* C7: in batch mode the context of the record is the context returned,
\* whether or not the record says done = true.
C7_BatchDoneImplied ==
    (~conf.stream /\ ret.fn = "generate" /\ ret.ok /\ parsed[1].context.some)
        => ret.v.context = FmtVecDebug(parsed[1].context.v)

\* C8: whenever the streaming loop is about to take the next chunk, the
\* response of every record deframed so far has been printed, in order.
C8_ForwardBeforeNextChunk ==
    (conf.stream /\ pc = "recv")
        => /\ AllAnswered(parsed)
           /\ Answers(out) = ResponsesOf(parsed)

C8_Witness ==
    /\ conf.stream /\ pc = "recv"
    /\ wire # ""
    /\ Len(parsed) = 1
    /\ Answers(out) = <<"Hel">>

\* C9: the first request of a session that restored no conversation carries
\* no context, and every later one carries the context the call before it
\* returned.
C9_ContextThreading ==
    pc \in {"recv", "body"}
        => IF turn = 1
           THEN ~matches.restore => "context" \notin DOMAIN sent
           ELSE /\ prev.fn = "generate" /\ prev.ok
                /\ "context" \in DOMAIN sent
                /\ sent["context"] = prev.v.context

C9_Witness ==
    /\ pc = "recv"
    /\ turn = 2
    /\ "context" \in DOMAIN sent
    /\ sent["context"] = "[1, 2, 3]"

\* C10: pull_model returns success for a pull it requested only if a record
\* of status "success" was received.
C10_PullNeedsSuccess ==
    (ret = Ok("pull_model", <<>>) /\ "name" \in DOMAIN sent)
        => \E i \in 1..Len(parsed) : parsed[i].status = Some("success")

\* the catalog main fetched lists the name
InCatalog(name) == \E i \in 1..Len(avail_models) : avail_models[i] = name

\* C11: pull_model called with a name the catalog lists returns Ok(()) and
\* no request has been sent to the server.
C11_PullPresentNoRequest ==
    (/\ pull_arg.some
     /\ InCatalog(pull_arg.v)
     /\ pc = "pulling" \/ ret.fn = "pull_model")
        => /\ ret = Ok("pull_model", <<>>)
           /\ calls = <<>>
           /\ sent = <<>>
           /\ pc = "exit0"

C11_Witness ==
    /\ pull_arg = Some("phi3:mini")
    /\ InCatalog("phi3:mini")
    /\ ret = Ok("pull_model", <<>>)
    /\ calls = <<>>

\* the status labels of the records that carry a digest
DigestLabels(rs) ==
    {rs[i].status.v : i \in {j \in 1..Len(rs) : /\ rs[j].digest.some
                                                 /\ rs[j].status.some
                                                 /\ ~rs[j].error.some}}

\* C12: while a pull runs and after it, the layer counter is the number of
\* distinct status labels of the records received with a digest, layers
\* holds each of them once, and a record whose label is already in layers
\* changes neither the counter nor the message shown.
C12_LayerState ==
    (pc = "pulling" \/ (ret.fn = "pull_model" /\ calls # <<>>))
        => /\ layer_num = Cardinality(DigestLabels(parsed))
           /\ Len(layers) = layer_num
           /\ {layers[i] : i \in 1..Len(layers)} = DigestLabels(parsed)

C12_LayersDeduplicated ==
    /\ []C12_LayerState
    /\ [][ (/\ pc = "pulling"
             /\ Len(parsed') = Len(parsed) + 1
             /\ ~parsed'[Len(parsed')].error.some
             /\ parsed'[Len(parsed')].status.some
             /\ \E i \in 1..Len(layers) : layers[i] = parsed'[Len(parsed')].status.v)
            => UNCHANGED <<layers, layer_num, pb>> ]_vars

C12_Witness ==
    /\ pc = "pulling"
    /\ Len(parsed) = 3
    /\ parsed[3].digest.some
    /\ parsed[3].status = parsed[1].status
    /\ layer_num = 2
    /\ pb = "Downloading: Layer 2"

\* C13: del_model called with a name the catalog does not list returns the
\* error "Model not found" and no request has been sent to the server.
C13_DelAbsentNoRequest ==
    (/\ del_arg.some
     /\ ~InCatalog(del_arg.v)
     /\ pc = "deleting" \/ ret.fn = "del_model")
        => /\ ret = Err("del_model", "Model not found")
           /\ calls = <<>>
           /\ sent = <<>>
           /\ pc = "exit1"

C13_Witness ==
    /\ del_arg = Some("gemma:2b")
    /\ ~InCatalog("gemma:2b")
    /\ ret = Err("del_model", "Model not found")
    /\ calls = <<>>

\* C14: del_model called with a name the catalog lists sends one delete
\* request; once the server has answered, it returns Ok(()) when the status
\* is 200 and the error "Server error deleting model" for any other.
C14_DelNeedsStatusOK ==
    (/\ del_arg.some
     /\ InCatalog(del_arg.v)
     /\ pc = "deleting" \/ ret.fn = "del_model")
        => /\ calls = <<Request("DELETE", "delete")>>
           /\ sent = ("name" :> del_arg.v)
           /\ (pc = "deleting") = (ret = NoCall)
           /\ (ret.fn = "del_model" /\ status.some)
                => /\ ret.ok = (status.v = 200)
                   /\ ~ret.ok => ret = Err("del_model", "Server error deleting model")
           /\ (ret.fn = "del_model" /\ ret.ok) => (status.some /\ pc = "exit0")

C14_Witness ==
    /\ del_arg = Some("phi3:mini")
    /\ ret = Err("del_model", "Server error deleting model")
    /\ status = Some(204)
    /\ calls = <<Request("DELETE", "delete")>>

\* the calls of db that read the store
Reads == {"list_conversations", "restore_conversation", "delete_conversations"}

\* every row holds a conversation of at least one turn
NoEmptyRecord ==
    \A i \in 1..Len(store.rows) :
        \E c \in {Chats(store.rows[i].conversation)} : c.ok /\ c.v # <<>>

\* C15: save_conversation with an empty conversation returns Ok(()) and
\* leaves the store as it was, and no row of the store ever holds an empty
\* conversation.
C15_EmptySaveNoOp ==
    /\ NoEmptyRecord
    /\ (db_ret.fn = "save_conversation" /\ db_ret.conversation = <<>>)
          => /\ db_ret.ret = DbOk(<<>>)
             /\ store = db_ret.pre

C15_Witness ==
    /\ db_ret.fn = "save_conversation"
    /\ db_ret.conversation = <<>>
    /\ Len(store.rows) = 1
    /\ store = db_ret.pre

\* the summaries list_conversations prints for a store it can read
Summaries(st) ==
    LET g == get_conversation_entries(st, TRUE) IN
    IF g.ok THEN g.v.conversations ELSE <<>>

\* the texts of the lines printed after the first
Shown(o) == [i \in 1..(Len(o) - 1) |-> o[i + 1].s]

\* C16: a list_conversations that follows the save of a conversation with
\* at least one turn prints the summaries of before the save, unchanged and
\* in order, and one more, which contains the model, host:port and the
\* first PreviewLen characters of the first turn.
C16_SaveThenList ==
    [][ (/\ db_ret.fn = "save_conversation"
         /\ db_ret.conversation # <<>>
         /\ db_ret'.fn = "list_conversations"
         /\ db_ret'.prepared)
        => LET before == Summaries(db_ret.pre)
               shown == Shown(db_out')
           IN  /\ db_ret'.ret = DbOk(<<>>)
               /\ db_out'[1] = Printed("Exit", "Previous conversations:")
               /\ Len(shown) = Len(before) + 1
               /\ SubSeq(shown, 1, Len(before)) = before
               /\ str_contains(shown[Len(shown)], db_ret.conf.model)
               /\ str_contains(shown[Len(shown)],
                               db_ret.conf.host \o ":" \o FmtInt(db_ret.conf.port))
               /\ str_contains(shown[Len(shown)],
                               Slice(db_ret.conversation[1].content, 1, PreviewLen))
      ]_vars

C16_Witness ==
    /\ db_ret.fn = "list_conversations"
    /\ db_ret.ret.ok
    /\ Len(db_out) = 3
    /\ str_contains(db_out[2].s, "llama3@localhost:11434 -> hi [")
    /\ str_contains(db_out[3].s,
                    "llama3@localhost:11434 -> Why is \"the sky\" blue at noon\\du [")

\* C17 as stated: restore_conversation returns the context and the turns
\* save_conversation was given for the record chosen.
C17_RestoreRoundTrip ==
    (db_ret.fn = "restore_conversation" /\ db_ret.ret.ok)
        => /\ db_ret.ret.v.conversation = passed[db_ret.idx].conversation
           /\ db_ret.ret.v.context = passed[db_ret.idx].context

\* C17: restore_conversation returns the turns save_conversation was given
\* for the record chosen, in order, and Some of the context it was given;
\* when it was given None, Some("[]").
C17_RestoreReturnsSaved ==
    (db_ret.fn = "restore_conversation" /\ db_ret.ret.ok)
        => /\ db_ret.ret.v.conversation = passed[db_ret.idx].conversation
           /\ db_ret.ret.v.context =
                 IF passed[db_ret.idx].context.some THEN passed[db_ret.idx].context
                 ELSE Some("[]")

C17_Witness ==
    /\ db_ret.fn = "restore_conversation"
    /\ db_ret.ret.ok
    /\ db_ret.idx = 2
    /\ Len(db_ret.ret.v.conversation) = 4
    /\ db_ret.ret.v.conversation[1].content = "Why is \"the sky\" blue at noon\\dusk, R2?"
    /\ db_ret.ret.v.conversation[2].content = "a\nb"
    /\ db_ret.ret.v.context = Some("[1, 2, 3]")
    /\ passed[2].context = Some("[1, 2, 3]")

\* C18: on a store without rows, with or without the table, each of
\* list_conversations, restore_conversation and delete_conversations
\* returns the error "No responses saved" and has shown no prompt and
\* printed nothing.
C18_EmptyStoreNoRecords ==
    (db_ret.fn \in Reads /\ db_ret.pre.rows = <<>>)
        => /\ db_ret.ret = DbErr(NoRecords)
           /\ ~db_ret.prompted
           /\ db_out = <<>>

C18_Witness ==
    /\ db_ret.fn = "delete_conversations"
    /\ db_ret.pre = [table |-> TRUE, rows |-> <<>>]
    /\ db_ret.prepared
    /\ db_ret.ret = DbErr(NoRecords)

\* C19: a read returns the error "No responses saved" only when the store
\* holds no row.
C19_NoRecordsOnlyWhenEmpty ==
    (db_ret.fn \in Reads /\ db_ret.ret = DbErr(NoRecords))
        => db_ret.pre.rows = <<>>

\* C20: delete_conversations with nothing selected or with the confirmation
\* declined returns Ok(()) and leaves the store as it was, as do
\* list_conversations and restore_conversation whatever they return; a call
\* after which a row is gone is a delete_conversations that was confirmed.
C20_DeleteNeedsConfirmation ==
    /\ (db_ret.fn = "delete_conversations" /\ db_ret.prompted
          /\ (db_ret.idxs = {} \/ ~db_ret.confirmed))
          => (db_ret.ret = DbOk(<<>>) /\ store = db_ret.pre)
    /\ db_ret.fn \in {"list_conversations", "restore_conversation"}
          => store = db_ret.pre
    /\ (db_ret.fn # "none" /\ Len(store.rows) < Len(db_ret.pre.rows))
          => /\ db_ret.fn = "delete_conversations"
             /\ db_ret.prompted
             /\ db_ret.idxs # {}
             /\ db_ret.confirmed

C20_Witness ==
    /\ db_ret.fn = "delete_conversations"
    /\ db_ret.prompted
    /\ db_ret.idxs = {1, 2}
    /\ ~db_ret.confirmed
    /\ Len(store.rows) = 2
    /\ Len(db_out) = 3

\* the number of places where pat occurs in s
Occurrences(s, pat) ==
    Cardinality({i \in 1..(Len(s) - Len(pat) + 1) : SubSeq(s, i, i + Len(pat) - 1) = pat})

\* the text of field k of the map m under the quoting rule
FieldText(m, k) ==
    IF k \in {"context", "stream"} THEN "\"" \o k \o "\":" \o m[k]
    ELSE "\"" \o k \o "\":\"" \o m[k] \o "\""

RECURSIVE FieldsLen(_, _)
FieldsLen(m, keys) ==
    IF keys = <<>> THEN 0 ELSE Len(FieldText(m, Head(keys))) + FieldsLen(m, Tail(keys))

\* C21: the text get_postdata returns for a non-empty map starts with a
\* brace and ends with one that no comma precedes, holds each key once, the
\* values of context and stream as they are and every other value between
\* quotes, each field between separators, and nothing else; model = llama3,
\* prompt = hi, stream = false in this order gives
\* {"model":"llama3","prompt":"hi","stream":false}
C21_QuotingRule ==
    postdata # "" =>
       /\ Ch(postdata, 1) = "{"
       /\ ends_with(postdata, "}")
       /\ Ch(postdata, Len(postdata) - 1) # ","
       /\ \A k \in DOMAIN payload :
             /\ Occurrences(postdata, "\"" \o k \o "\":") = 1
             /\ \E i \in 2..Len(postdata) :
                   /\ Slice(postdata, i, i + Len(FieldText(payload, k)) - 1)
                         = FieldText(payload, k)
                   /\ Ch(postdata, i - 1) \in {"{", ","}
                   /\ Ch(postdata, i + Len(FieldText(payload, k))) \in {",", "}"}
       /\ Len(postdata) = FieldsLen(payload, key_order) + Len(key_order) + 1
       /\ (key_order = <<"model", "prompt", "stream">>
             /\ payload = [k \in {"model", "prompt", "stream"} |->
                             CASE k = "model" -> "llama3"
                               [] k = "prompt" -> "hi"
                               [] OTHER -> "false"]
           => postdata = "{\"model\":\"llama3\",\"prompt\":\"hi\",\"stream\":false}")

\* the map of the example has been encoded in the order of the example
C21_Witness ==
    /\ postdata = "{\"model\":\"llama3\",\"prompt\":\"hi\",\"stream\":false}"
    /\ key_order = <<"model", "prompt", "stream">>

\* C22: the text get_postdata returns is a JSON object whose values are
\* strings, literals and arrays of numbers
C22_PostdataIsJson ==
    postdata # "" =>
       /\ from_str(postdata).ok
       /\ from_str(postdata).v.t = "obj"
       /\ \A i \in 1..Len(from_str(postdata).v.v) :
             from_str(postdata).v.v[i].v.t # "obj"

\* C27: a streaming call of generate that returns Ok has processed a record
\* with done = true.
C27_DoneNeedsTerminalRecord ==
    (conf.stream /\ ret.fn = "generate" /\ ret.ok)
        => \E i \in 1..Len(parsed) : IsDone(parsed[i])

\* the records of a pull up to and with the first one that carries error
RECURSIVE UpToError(_)
UpToError(rs) ==
    IF rs = <<>> THEN <<>>
    ELSE IF Head(rs).error.some THEN <<Head(rs)>>
    ELSE <<Head(rs)>> \o UpToError(Tail(rs))

\* C28: when the body of a pull is a sequence of complete records, the
\* call ends as it does when each record is a chunk of its own, however the
\* transport cuts the body: the records up to the first error have been
\* processed in order, and the call returns that error, or Ok(()) without.
C28_PullChunkingSameOutcome ==
    (/\ ret.fn = "pull_model"
     /\ "name" \in DOMAIN sent
     /\ ~ret.ok => ret.err # TransportError
     /\ ValuesFrom(body, 1, <<>>).ok)
        => \E recs \in {[i \in 1..Len(ValuesFrom(body, 1, <<>>).v) |->
                            PullResponse(ValuesFrom(body, 1, <<>>).v[i]).v]} :
              /\ parsed = UpToError(recs)
              /\ IF parsed # <<>> /\ parsed[Len(parsed)].error.some
                 THEN ret = Err("pull_model", parsed[Len(parsed)].error.v)
                 ELSE ret = Ok("pull_model", <<>>)

\* C29: after a delete_conversations that was confirmed, the rows of the
\* store are the rows it had before at the positions that were not
\* selected, in order.
C29_DeleteRemovesSelectedOnly ==
    (/\ db_ret.fn = "delete_conversations"
     /\ db_ret.prompted
     /\ db_ret.idxs # {}
     /\ db_ret.confirmed)
        => store.rows = Keep(db_ret.pre.rows,
                             (1..Len(db_ret.pre.rows)) \ db_ret.idxs, 1)

\* a request to the generate endpoint has been issued
GenerateIssued == \E i \in 1..Len(calls) : calls[i] = Request("POST", "generate")

\* get_config and get_models have returned Ok
CatalogFetched == Len(log) >= Len(Started) /\ SubSeq(log, 1, Len(Started)) = Started

\* C23: a generate request has been issued only if the catalog lists
\* conf.model; when it does not, main has exited with status 1 once the
\* catalog was fetched, and no generate request was issued.
C23_GenerateNeedsCatalogMember ==
    /\ GenerateIssued => InCatalog(conf.model)
    /\ (CatalogFetched /\ ~InCatalog(conf.model)) => (pc = "exit1" /\ ~GenerateIssued)

\* C24: once the catalog is fetched and main has gone on, a pull asked for
\* with a name the catalog does not list has been requested from the
\* server, whether or not the catalog lists conf.model.
C24_PullExemptFromLookup ==
    (CatalogFetched /\ pull_arg.some /\ ~InCatalog(pull_arg.v))
        => (calls # <<>> /\ calls[1] = Request("POST", "pull"))

\* C25: when main has exited with status 1, the last line of the log is an
\* Error line; when it has exited with status 0 after the question loop,
\* the conversation was saved if conf.save is set.
C25_FatalLogsThenExits ==
    /\ pc = "exit1" => (log # <<>> /\ log[Len(log)].lvl = "Error")
    /\ (pc = "exit0" /\ turn > 0 /\ conf.save)
          => (db_ret.fn = "save_conversation" /\ db_ret.ret.ok)
    /\ (pc = "exit0" /\ turn > 0)
          => out[Len(out)] = Printed("Exit", "Goodbye")

\* C26: in a session with the no_save flag save_conversation is not called.
C26_NoSaveFlagNotPersisted ==
    matches.no_save => db_ret.fn # "save_conversation"

\* complete pairs: a user turn and an assistant turn, again and again
Paired(chats) ==
    /\ Len(chats) % 2 = 0
    /\ \A i \in 1..Len(chats) :
          chats[i].role = IF i % 2 = 1 THEN "user" ELSE "assistant"

\* C30: the conversation save_conversation is called with is made of
\* complete pairs, and so is every conversation in the store; when generate
\* has returned an error, the question that failed is the last turn of the
\* conversation, the process has exited with status 1 and save_conversation
\* has not been called.
C30_SavedTurnsPaired ==
    /\ db_ret.fn = "save_conversation" => Paired(db_ret.conversation)
    /\ \A i \in 1..Len(store.rows) :
          Chats(store.rows[i].conversation).ok
             /\ Paired(Chats(store.rows[i].conversation).v)
    /\ (ret.fn = "generate" /\ ~ret.ok)
          => /\ conversation[Len(conversation)].role = "user"
             /\ pc = "exit1"
             /\ db_ret.fn # "save_conversation"

\* a session has restored a conversation, asked two questions more and
\* saved the six turns
C30_Witness ==
    /\ pc = "exit0"
    /\ matches.restore
    /\ db_ret.fn = "save_conversation"
    /\ Len(db_ret.conversation) = 6
    /\ Len(store.rows) = 2

\* the number of "Done" lines printed
DoneLines(o) == Cardinality({i \in 1..Len(o) : o[i] = Printed("Info", "\nDone")})

\* the number of records with done = true
DoneRecords(rs) == Cardinality({i \in 1..Len(rs) : IsDone(rs[i])})

\* C31: a record of generate with neither error nor response, in batch and
\* in streaming mode and also when it says done = true and carries a
\* context, is the last one processed: generate returns the error
\* "Response not found" and the process exits; nothing is printed for the
\* record, neither an answer nor "Done", its context is not taken, and no
\* assistant turn or context reaches the caller.
C31_ResponseNotFound ==
    \A i \in 1..Len(parsed) :
        (turn > 0 /\ ~parsed[i].error.some /\ ~parsed[i].response.some)
            => /\ i = Len(parsed)
               /\ ret = Err("generate", "Response not found")
               /\ pc = "exit1"
               /\ Answers(out) = ResponsesOf(SubSeq(parsed, 1, i - 1))
               /\ DoneLines(out) = DoneRecords(SubSeq(parsed, 1, i - 1))
               /\ LastTerminal(SubSeq(parsed, 1, i - 1)) = 0 => gen_context = "[]"
               /\ log[Len(log)] = Logged("Error", "ollama")
               /\ conversation[Len(conversation)].role = "user"
               /\ (turn = 1 => context = IF matches.restore THEN db_ret.ret.v.context
                                          ELSE None)
               /\ (turn > 1 => context = Some(prev.v.context))

\* a streaming call has met a record with done = true and a context and
\* without response
C31_Witness ==
    /\ conf.stream /\ turn > 0
    /\ Len(parsed) >= 1
    /\ IsDone(parsed[Len(parsed)])
    /\ parsed[Len(parsed)].context.some
    /\ ~parsed[Len(parsed)].response.some
    /\ ~parsed[Len(parsed)].error.some
    /\ pc = "exit1"

\* the port get_config is to decide on: the flag's when the flag is given,
\* else the file's
GivenPort == IF port_flag.some THEN parse_u16(port_flag.v) ELSE toml_u16(conf_file.v)

\* C32: when the file holds a u16 and the port given (by the flag, else by
\* the file) is a u16, get_config returns that port exactly when it is in
\* 0..65534, and fails with "Port out of bounds" when it is 65535; the port
\* prompt of the setup has accepted every text that parses as a u16, 65535
\* among them.
C32_PortBound ==
    /\ (port_ret # NoCall /\ toml_u16(conf_file.v).ok /\ GivenPort.ok)
           => /\ GivenPort.v \in 0..65534 <=> port_ret = Ok("get_config", GivenPort.v)
              /\ GivenPort.v = 65535 <=> port_ret = Err("get_config", "Port out of bounds")
    /\ (port_check.some /\ port_input = "65535")
           => port_check.v = Ok("validate_port_str", <<>>)
    /\ (port_check.some /\ parse_u16(port_input).ok) => port_check.v.ok

\* 65535 was typed at the port prompt, accepted and written to the file,
\* and get_config has refused it
C32_Witness ==
    /\ port_input = "65535"
    /\ port_check = Some(Ok("validate_port_str", <<>>))
    /\ conf_file = Some(65535)
    /\ port_flag = None
    /\ port_ret = Err("get_config", "Port out of bounds")

====
